---- MODULE Spec2Model ----
(***************************************************************************)
(* Organic matter accretion models of MACES (src/src/omac_mod.py):         *)
(* NULLMOD, VDK05MOD, M12MOD, DA07MOD, KM12MOD and K16MOD, operating in    *)
(* place on the per-cell buffers of a one-dimensional transect.            *)
(*                                                                         *)
(* Numbers.  A float64 of the program is modelled exactly as a triple      *)
(* <<n, d, k>> standing for (n/d) * 3.1536e7^k, n/d a reduced fraction     *)
(* with d > 0.  The exponent k keeps the per-second fluxes (DepOM is of    *)
(* the order 1e-10) within 32-bit integers.  d = 0 encodes the             *)
(* IEEE specials numpy produces: <<1,0,0>> = +inf, <<-1,0,0>> = -inf and   *)
(* <<0,0,0>> = nan.  Rounding of float64 is below the model's resolution.  *)
(***************************************************************************)
EXTENDS Integers, Sequences, FiniteSets, TLC

\* seconds per year, the literal 3.1536e7 of the program
YrSec == 31536000

\* ------------------------------------------------------------ numbers

Sign(n) == IF n > 0 THEN 1 ELSE IF n < 0 THEN -1 ELSE 0

Abs(n) == IF n < 0 THEN -n ELSE n

RECURSIVE Gcd(_, _)
Gcd(a, b) == IF b = 0 THEN a ELSE Gcd(b, a % b)

\* the canonical triple of (n/d) * YrSec^k; d = 0 gives inf / nan
Norm(n, d, k) ==
  IF d = 0 THEN <<Sign(n), 0, 0>>
  ELSE IF n = 0 THEN <<0, 1, 0>>
  ELSE LET g == Gcd(Abs(n), Abs(d))
           s == Sign(d)
       IN <<s * (n \div g), s * (d \div g), k>>

\* the float literal n/d
Q(n, d) == Norm(n, d, 0)

Zero == <<0, 1, 0>>
One == <<1, 1, 0>>
NaN == <<0, 0, 0>>
PosInf == <<1, 0, 0>>
\* the literal 3.1536e7 (seconds per year)
Yr == <<1, 1, 1>>
\* the literal 8.64e4 (seconds per day) = 3.1536e7 / 365
Day == <<1, 365, 1>>

IsNaN(x) == x[2] = 0 /\ x[1] = 0
IsInf(x) == x[2] = 0 /\ x[1] # 0
IsFinite(x) == x[2] # 0

RNeg(x) == <<-x[1], x[2], x[3]>>

\* x * y; inf * 0 = nan
RMul(x, y) ==
  IF x[2] = 0 \/ y[2] = 0 THEN Norm(x[1] * y[1], 0, 0)
  ELSE LET g1 == Gcd(Abs(x[1]), y[2])
           g2 == Gcd(Abs(y[1]), x[2])
       IN Norm((x[1] \div g1) * (y[1] \div g2),
               (x[2] \div g2) * (y[2] \div g1), x[3] + y[3])

\* 1 / x; 1/0 = +inf (numpy warns and continues), 1/inf = 0
RInv(x) ==
  IF x[2] = 0 THEN (IF x[1] = 0 THEN NaN ELSE Zero)
  ELSE IF x[1] = 0 THEN PosInf
  ELSE <<Sign(x[1]) * x[2], Abs(x[1]), -x[3]>>

\* x / y; 0/0 = nan, x/0 = +-inf
RDiv(x, y) == RMul(x, RInv(y))

RECURSIVE IPow(_, _)
IPow(b, e) == IF e = 0 THEN 1 ELSE b * IPow(b, e - 1)

\* the same finite value written with the smaller exponent k
Retag(m, k) == <<m[1], m[2], k>>

Lower(x, k) == Retag(RMul(<<x[1], x[2], 0>>, <<IPow(YrSec, x[3] - k), 1, 0>>), k)

\* a + b for finite non-zero a and b written with the same exponent k
RSum(a, b, k) ==
  LET g == Gcd(a[2], b[2])
  IN Norm(a[1] * (b[2] \div g) + b[1] * (a[2] \div g), a[2] * (b[2] \div g), k)

\* x + y; inf + (-inf) = nan
RAdd(x, y) ==
  IF IsNaN(x) \/ IsNaN(y) THEN NaN
  ELSE IF IsInf(x) /\ IsInf(y) THEN (IF x[1] = y[1] THEN x ELSE NaN)
  ELSE IF IsInf(x) THEN x
  ELSE IF IsInf(y) THEN y
  ELSE IF x[1] = 0 THEN y
  ELSE IF y[1] = 0 THEN x
  ELSE IF x[3] = y[3] THEN RSum(x, y, x[3])
  ELSE IF x[3] < y[3] THEN RSum(x, Lower(y, x[3]), x[3])
  ELSE RSum(Lower(x, y[3]), y, y[3])

RSub(x, y) == RAdd(x, RNeg(y))

\* comparisons; every comparison with nan is false
RLeq(x, y) == ~IsNaN(x) /\ ~IsNaN(y) /\ (x = y \/ RSub(y, x)[1] > 0)
RLt(x, y) == ~IsNaN(x) /\ ~IsNaN(y) /\ x # y /\ RSub(y, x)[1] > 0
RGeq(x, y) == RLeq(y, x)
RGt(x, y) == RLt(y, x)

\* np.maximum(x, y): propagates nan
RMax(x, y) == IF IsNaN(x) \/ IsNaN(y) THEN NaN ELSE IF RLeq(x, y) THEN y ELSE x

\* x ** 2
RSq(x) == RMul(x, x)

\* x ** e for a positive non-integer float e (2.11 and 1.17 in the program):
\* 0 ** e = 0, 1 ** e = 1, (+-inf) ** e = inf, nan ** e = nan, and nan for a
\* negative x; at the other diameters the model writes, the power to the
\* nearest integer
RPow(x, e) ==
  CASE IsNaN(x) -> NaN
    [] IsInf(x) -> PosInf
    [] x = Zero -> Zero
    [] x = One -> One
    [] IsFinite(x) /\ x[1] < 0 -> NaN
    [] x = Q(101, 20) /\ e = Q(211, 100) -> Q(30, 1)
    [] x = Q(26, 5) /\ e = Q(211, 100) -> Q(32, 1)
    [] x = Q(6, 1) /\ e = Q(211, 100) -> Q(44, 1)
    [] x = Q(5, 1) /\ e = Q(211, 100) -> Q(30, 1)
    [] x = Q(101, 20) /\ e = Q(117, 100) -> Q(7, 1)
    [] x = Q(26, 5) /\ e = Q(117, 100) -> Q(7, 1)
    [] x = Q(6, 1) /\ e = Q(117, 100) -> Q(8, 1)
    [] x = Q(5, 1) /\ e = Q(117, 100) -> Q(7, 1)

\* ------------------------------------------------------------ arrays

\* number of cells of the transect (nx of the driver, K16MOD.__init__'s nx)
nx == 2

Cells == 1..nx

\* Arrays are sequences; "\o <<>>" after a constructor only turns the
\* function into a tuple, evaluated once instead of at every use

\* a numpy array filled with one value: np.zeros(nx), or a broadcast scalar
Full(n, v) == [i \in 1..n |-> v] \o <<>>

RECURSIVE Where(_, _)
\* the indices >= i at which the boolean mask is true, in increasing order
Where(mask, i) ==
  IF i > Len(mask) THEN <<>>
  ELSE (IF mask[i] THEN <<i>> ELSE <<>>) \o Where(mask, i + 1)

\* a[indice]: the selected elements, in order (boolean-mask indexing)
Take(a, indice) == LET w == Where(indice, 1) IN [j \in 1..Len(w) |-> a[w[j]]] \o <<>>

\* tab[idx]: integer-array indexing of a per-pft coefficient table
Gather(tab, idx) == [j \in 1..Len(idx) |-> tab[idx[j]]] \o <<>>

\* a[indice] = v: writes v, in order, at the selected indices only
Put(a, indice, v) ==
  [i \in 1..Len(a) |->
     IF indice[i] THEN v[Cardinality({j \in 1..i : indice[j]})] ELSE a[i]] \o <<>>

\* elementwise operations on arrays of equal length
VAdd(a, b) == [j \in 1..Len(a) |-> RAdd(a[j], b[j])] \o <<>>
VSub(a, b) == [j \in 1..Len(a) |-> RSub(a[j], b[j])] \o <<>>
VMul(a, b) == [j \in 1..Len(a) |-> RMul(a[j], b[j])] \o <<>>
VDiv(a, b) == [j \in 1..Len(a) |-> RDiv(a[j], b[j])] \o <<>>
VMax(a, b) == [j \in 1..Len(a) |-> RMax(a[j], b[j])] \o <<>>
VSq(a) == [j \in 1..Len(a) |-> RSq(a[j])] \o <<>>
VPow(a, e) == [j \in 1..Len(a) |-> RPow(a[j], e)] \o <<>>

\* scalar-with-array operations (numpy broadcasting)
SAdd(s, a) == [j \in 1..Len(a) |-> RAdd(s, a[j])] \o <<>>
SSub(s, a) == [j \in 1..Len(a) |-> RSub(s, a[j])] \o <<>>
SMul(s, a) == [j \in 1..Len(a) |-> RMul(s, a[j])] \o <<>>
SDiv(s, a) == [j \in 1..Len(a) |-> RDiv(s, a[j])] \o <<>>
SMax(s, a) == [j \in 1..Len(a) |-> RMax(s, a[j])] \o <<>>
ASub(a, s) == [j \in 1..Len(a) |-> RSub(a[j], s)] \o <<>>
ADiv(a, s) == [j \in 1..Len(a) |-> RDiv(a[j], s)] \o <<>>

\* np.logical_and(zh >= 0, zh <= hi)
ElevGate(zh, hi) == [i \in 1..Len(zh) |-> RGeq(zh[i], Zero) /\ RLeq(zh[i], hi)] \o <<>>

\* np.logical_and(pft >= lo, pft <= hi)
PftGate(pft, lo, hi) == [i \in 1..Len(pft) |-> pft[i] >= lo /\ pft[i] <= hi] \o <<>>

\* np.logical_and(m1, m2)
MAnd(m1, m2) == [i \in 1..Len(m1) |-> m1[i] /\ m2[i]] \o <<>>

\* ------------------------------------------------------------ functions of numpy

\* np.pi, to two decimals
Pi == Q(157, 50)

\* np.sin(k * np.pi / 12) for an integer k, to three decimals
SinPi12(k) ==
  LET r == k % 24
      q == IF r <= 6 THEN r ELSE IF r <= 12 THEN 12 - r
           ELSE IF r <= 18 THEN r - 12 ELSE 24 - r
      v == CASE q = 0 -> Zero
             [] q = 1 -> Q(259, 1000)
             [] q = 2 -> Q(1, 2)
             [] q = 3 -> Q(707, 1000)
             [] q = 4 -> Q(433, 500)
             [] q = 5 -> Q(483, 500)
             [] q = 6 -> One
  IN IF r <= 12 THEN v ELSE RNeg(v)

\* np.cos(2 * np.pi * k / 365) for an integer day offset k, to two decimals,
\* tabulated at the offsets the transect's calendar uses
Cos365(k) ==
  LET r == k % 365
  IN CASE r = 0 -> One
       [] r = 56 -> Q(57, 100)
       [] r = 91 -> Zero
       [] r = 147 -> Q(-82, 100)
       [] r = 182 -> Q(-1, 1)
       [] r = 238 -> Q(-58, 100)
       [] r = 274 -> Zero
       [] r = 330 -> Q(82, 100)

\* np.sin(2 * np.pi * k / 365) for an integer day offset k, to two decimals
Sin365(k) ==
  LET r == k % 365
  IN CASE r = 0 -> Zero
       [] r = 91 -> One
       [] r = 182 -> Q(1, 100)
       [] r = 274 -> Q(-1, 1)

\* ------------------------------------------------- IEEE-754 binary64
\* The seasonal terms are also computed as numpy computes them, in binary64
\* with round-to-nearest-even.  A natural number is a sequence of limbs, least
\* significant first, in base LimbBase, without leading zero limbs; a double
\* is <<s, M, e>> = s * M * 2^e with s in {-1, 0, 1} and M of Precision bits.
LimbBits == 13
LimbBase == 8192
Precision == 53

RECURSIVE BNorm(_)
BNorm(a) ==
  IF a = <<>> THEN <<>>
  ELSE IF a[Len(a)] = 0 THEN BNorm(SubSeq(a, 1, Len(a) - 1)) ELSE a

Limb(a, i) == IF i <= Len(a) THEN a[i] ELSE 0

RECURSIVE BAddC(_, _, _, _)
BAddC(a, b, i, c) ==
  IF i > Len(a) /\ i > Len(b)
    THEN (IF c = 0 THEN <<>> ELSE <<c>>)
    ELSE <<(Limb(a, i) + Limb(b, i) + c) % LimbBase>>
         \o BAddC(a, b, i + 1, (Limb(a, i) + Limb(b, i) + c) \div LimbBase)

BAdd(a, b) == BAddC(a, b, 1, 0)

\* a - b for a >= b
RECURSIVE BSubC(_, _, _, _)
BSubC(a, b, i, c) ==
  IF i > Len(a) THEN <<>>
  ELSE <<(Limb(a, i) - Limb(b, i) - c) % LimbBase>>
       \o BSubC(a, b, i + 1, IF Limb(a, i) - Limb(b, i) - c < 0 THEN 1 ELSE 0)

BSub(a, b) == BNorm(BSubC(a, b, 1, 0))

\* -1, 0, 1 as a < b, a = b, a > b, comparing from limb i down
RECURSIVE BCmpAt(_, _, _)
BCmpAt(a, b, i) ==
  IF i = 0 THEN 0
  ELSE IF a[i] # b[i] THEN (IF a[i] < b[i] THEN -1 ELSE 1)
  ELSE BCmpAt(a, b, i - 1)

BCmp(a, b) ==
  IF Len(a) # Len(b) THEN (IF Len(a) < Len(b) THEN -1 ELSE 1)
  ELSE BCmpAt(a, b, Len(a))

RECURSIVE BMulSmall(_, _, _, _)
BMulSmall(a, m, i, c) ==
  IF i > Len(a) THEN (IF c = 0 THEN <<>> ELSE <<c>>)
  ELSE <<(a[i] * m + c) % LimbBase>>
       \o BMulSmall(a, m, i + 1, (a[i] * m + c) \div LimbBase)

RECURSIVE BMulAt(_, _, _)
BMulAt(a, b, j) ==
  IF j > Len(b) THEN <<>>
  ELSE BAdd(BMulSmall(a, b[j], 1, 0), <<0>> \o BMulAt(a, b, j + 1))

BMul(a, b) == BNorm(BMulAt(a, b, 1))

BHalf(a) ==
  BNorm([i \in 1..Len(a) |->
           a[i] \div 2 + (Limb(a, i + 1) % 2) * (LimbBase \div 2)] \o <<>>)

BOdd(a) == a # <<>> /\ a[1] % 2 = 1

RECURSIVE Pow2(_)
Pow2(n) == IF n = 0 THEN 1 ELSE 2 * Pow2(n - 1)

\* a * 2^n and a \div 2^n
RECURSIVE BShl(_, _)
BShl(a, n) ==
  IF a = <<>> THEN <<>>
  ELSE IF n >= LimbBits THEN <<0>> \o BShl(a, n - LimbBits)
  ELSE BMulSmall(a, Pow2(n), 1, 0)

RECURSIVE BShr(_, _)
BShr(a, n) ==
  IF a = <<>> \/ n = 0 THEN a
  ELSE IF n >= LimbBits THEN BShr(Tail(a), n - LimbBits)
  ELSE BShr(BHalf(a), n - 1)

RECURSIVE Bits(_)
Bits(x) == IF x = 0 THEN 0 ELSE 1 + Bits(x \div 2)

\* the number of bits of a
BBits(a) ==
  IF a = <<>> THEN 0 ELSE (Len(a) - 1) * LimbBits + Bits(a[Len(a)])

RECURSIVE BFromInt(_)
BFromInt(n) ==
  IF n = 0 THEN <<>> ELSE <<n % LimbBase>> \o BFromInt(n \div LimbBase)

\* a * m for a limb m (zero included)
BScale(a, m) == IF m = 0 THEN <<>> ELSE BMulSmall(a, m, 1, 0)

\* Long division, limb by limb from the most significant (Knuth, algorithm
\* D): d has its top limb >= LimbBase/2, r < d * LimbBase.  The estimate from
\* the leading limbs is at most 2 above the digit.
BEstimate(r, d) ==
  IF Len(r) > Len(d)
    THEN (r[Len(r)] * LimbBase + r[Len(r) - 1]) \div d[Len(d)]
    ELSE r[Len(r)] \div d[Len(d)]

BFix(q, r, d) == IF BCmp(BScale(d, q), r) > 0 THEN q - 1 ELSE q

BLimit(q) == IF q >= LimbBase THEN LimbBase - 1 ELSE q

BDigit(r, d) ==
  IF BCmp(r, d) < 0 THEN 0
  ELSE BFix(BFix(BLimit(BEstimate(r, d)), r, d), r, d)

\* digits so far in q (least significant first), limbs i..1 of n still to
\* bring down, r the running remainder
RECURSIVE BDivAt(_, _, _, _, _)
BDivEmit(n, d, i, r, q, dg) ==
  BDivAt(n, d, i - 1, BSub(r, BScale(d, dg)), <<dg>> \o q)

BDivNext(n, d, i, r, q) == BDivEmit(n, d, i, r, q, BDigit(r, d))

BDivAt(n, d, i, r, q) ==
  IF i = 0 THEN <<BNorm(q), r>>
  ELSE BDivNext(n, d, i, BNorm(<<n[i]>> \o r), q)

\* the leading Len(d) - 1 limbs of n are below d: their digits are zero
BDivShift(n, d) ==
  IF Len(n) < Len(d) THEN <<<<>>, n>>
  ELSE BDivAt(n, d, Len(n) - Len(d) + 1,
              SubSeq(n, Len(n) - Len(d) + 2, Len(n)), <<>>)

\* <<n \div d, (n % d) * 2^sh>>: the quotient and whether it is exact
BDivMod(n, d) ==
  BDivShift(BShl(n, LimbBits - Bits(d[Len(d)])),
            BShl(d, LimbBits - Bits(d[Len(d)])))

FZero == <<0, <<>>, 0>>

\* round-to-nearest-even of s * n * 2^e
Renorm(s, q, e) ==
  IF BBits(q) > Precision THEN <<s, BHalf(q), e + 1>> ELSE <<s, q, e>>

RoundUp(s, q, c, e) ==
  IF c > 0 \/ (c = 0 /\ BOdd(q)) THEN Renorm(s, BAdd(q, <<1>>), e)
  ELSE <<s, q, e>>

RoundQ(s, q, n, e, sh) ==
  RoundUp(s, q, BCmp(BSub(n, BShl(q, sh)), BShl(<<1>>, sh - 1)), e + sh)

RoundL(s, n, e, L) ==
  IF L <= Precision THEN <<s, BShl(n, Precision - L), e - (Precision - L)>>
  ELSE RoundQ(s, BShr(n, L - Precision), n, e, L - Precision)

Round(s, n, e) == IF n = <<>> THEN FZero ELSE RoundL(s, n, e, BBits(n))

FInt(n) == Round(Sign(n), BFromInt(Abs(n)), 0)
FNeg(a) == <<-a[1], a[2], a[3]>>
FMul(a, b) ==
  IF a[1] = 0 \/ b[1] = 0 THEN FZero
  ELSE Round(a[1] * b[1], BMul(a[2], b[2]), a[3] + b[3])

\* the quotient to Precision + 2 bits at least, with a sticky bit for the
\* remainder
GuardBits == 55
FDivQ(s, qr, e) ==
  Round(s, BAdd(BAdd(qr[1], qr[1]), IF qr[2] = <<>> THEN <<>> ELSE <<1>>), e)

\* b # 0
FDiv(a, b) ==
  IF b[1] # 0 /\ a[1] = 0 THEN FZero
  ELSE FDivQ(a[1] * b[1], BDivMod(BShl(a[2], GuardBits), b[2]),
             a[3] - b[3] - GuardBits - 1)

FSum(sa, na, sb, nb, e) ==
  IF sa = sb THEN Round(sa, BAdd(na, nb), e)
  ELSE IF BCmp(na, nb) >= 0 THEN Round(sa, BSub(na, nb), e)
  ELSE Round(sb, BSub(nb, na), e)

FAlign(a, b, e) == FSum(a[1], BShl(a[2], a[3] - e), b[1], BShl(b[2], b[3] - e), e)

FAdd(a, b) ==
  IF a[1] = 0 THEN b
  ELSE IF b[1] = 0 THEN a
  ELSE FAlign(a, b, IF a[3] < b[3] THEN a[3] ELSE b[3])

FSub(a, b) == FAdd(a, FNeg(b))

\* np.maximum(a, 0.0)
FMax0(a) == IF a[1] < 0 THEN FZero ELSE a

\* the double nearest to n/d: a decimal literal or input value
F(n, d) == FDiv(FInt(n), FInt(d))

\* np.cos(2*np.pi*k/365) in binary64, k an integer day offset: the value the
\* C library returns for the rounded argument
Cos365_f64(k) ==
  CASE k = 0 -> <<1, <<0, 0, 0, 0, 1>>, -52>>
    [] k = 91 -> <<1, <<3184, 7846, 1424, 833, 1>>, -60>>
    [] k = 365 -> <<1, <<0, 0, 0, 0, 1>>, -52>>
    [] k = 456 -> <<1, <<4234, 7846, 1424, 833, 1>>, -60>>

\* np.sin(np.pi*m/6 - mps*np.pi/12) in binary64 for mps = 8
SinPi6_f64(m, mps) ==
  CASE m = 1 /\ mps = 8 -> <<-1, <<0, 0, 0, 0, 1>>, -52>>
    [] m = 5 /\ mps = 8 -> <<1, <<2, 0, 0, 0, 1>>, -53>>
    [] m = 7 /\ mps = 8 -> <<1, <<0, 0, 0, 0, 1>>, -52>>
    [] m = 13 /\ mps = 8 -> <<-1, <<0, 0, 0, 0, 1>>, -52>>
    [] m = 17 /\ mps = 8 -> <<1, <<7, 0, 0, 0, 1>>, -53>>

\* the binary64 value of a decimal input n/d
ToDbl(x) == IF x[2] = 1 THEN FInt(x[1]) ELSE F(x[1], x[2])

\* ------------------------------------------------------------ parameters

\* the platform plant function types of TAIMODSuper.py
PftCodes == 0..8

\* a per-pft coefficient table: dflt outside the marsh and mangrove types
Table(dflt, p2, p3, p4, p5) ==
  [p \in PftCodes |->
     CASE p = 2 -> p2 [] p = 3 -> p3 [] p = 4 -> p4 [] p = 5 -> p5
       [] OTHER -> dflt]

\* a coefficient array shorter than the pft enumeration: codes 0..NCoef-1 only
NCoef == 4

Short(tab) == [p \in 0..(NCoef - 1) |-> tab[p]]

\* utils.TOL of maces_utilities: the small tolerance on Bag
TOL == Q(1, 1000000)

NULLMOD_params ==
  [aa |-> Table(Zero, Q(1, 2), One, One, Q(2, 1)),
   bb |-> Table(Zero, Q(-1, 10), Q(-1, 1), Q(-1, 1), Zero),
   cc |-> Table(Zero, Q(1, 20), Q(-1, 10), Q(-1, 10), Zero)]

VDK05MOD_params ==
  [rB0 |-> Table(Zero, One, Zero, Q(1, 2), Q(1, 2)),
   Bmax |-> Table(One, Q(2, 1), One, One, One),
   czh |-> Table(Q(3, 10), Q(3, 10), Q(3, 10), Q(3, 10), Q(3, 10)),
   dP |-> Table(Q(1, 10), Q(1, 10), Q(1, 10), Q(1, 10), Q(1, 10)),
   dB |-> Table(Q(1, 5), Q(1, 5), Q(1, 5), Q(1, 5), Q(1, 5))]

M12MOD_params ==
  [Kr |-> Table(Q(1, 2), Q(1, 2), Q(1, 2), Q(1, 2), Q(1, 2)),
   Tr |-> Table(Q(2, 1), Q(2, 1), Q(2, 1), Q(2, 1), Q(2, 1)),
   phi |-> Table(Q(1, 2), Q(3, 10), Q(1, 2), Q(1, 2), Q(1, 2)),
   aa |-> NULLMOD_params.aa,
   bb |-> NULLMOD_params.bb,
   cc |-> NULLMOD_params.cc]

DA07MOD_params ==
  [Qom0 |-> Q(1, 400),
   rhoOM |-> Q(1200, 1),
   Bmax |-> Table(One, Q(2, 1), One, One, One),
   omega |-> Q(1, 5),
   mps |-> 8]

KM12MOD_params ==
  [thetaBG |-> Table(Q(-5, 1), Q(-5, 1), Q(-5, 1), Q(-5, 1), Q(-5, 1)),
   Dmbm |-> Table(Q(2, 1), Q(2, 1), Q(2, 1), Q(2, 1), Q(2, 1)),
   Bmax |-> Table(One, Q(2, 1), One, One, One),
   rBmin |-> Q(1, 5),
   Tref |-> Table(Q(293, 1), Q(293, 1), Q(293, 1), Q(293, 1), Q(293, 1)),
   sigmaB |-> Table(Q(1, 20), Q(1, 20), Q(1, 20), Q(1, 20), Q(1, 20)),
   rGmin |-> Q(1, 73),
   rGps |-> Q(2, 73),
   jdps |-> 200,
   sigmaOM |-> Q(1, 20),
   TrefOM |-> Q(293, 1),
   kl0 |-> Q(1, 2),
   kr0 |-> Q(1, 1000)]

K16MOD_params ==
  [gammaB |-> Q(1, 500),
   rhoOM |-> Q(1000, 1),
   Bmax |-> Table(One, Q(2, 1), One, One, One),
   Gmgv |-> RDiv(One, Yr),
   b2mgv |-> Q(48, 1),
   b3mgv |-> Q(-1, 5),
   Mhmax |-> Q(1000, 1),
   Mdmax |-> Q(100, 1),
   phi |-> Table(Q(1, 2), Q(3, 10), Q(1, 2), Q(1, 2), Q(1, 2))]

\* a K16MOD table whose diameters stay short fractions: Gmgv = 100/41 cm/yr
\* with Mdmax = Mhmax = 1, so that dt*I*Gmgv/Mdmax/Mhmax is 1, 4 or 20 at the
\* mangrove cell of CellKinds
AllometryParams ==
  [K16MOD_params EXCEPT !.Gmgv = RDiv(Q(100, 41), Yr), !.b2mgv = Q(-48, 5),
                        !.b3mgv = Q(3, 10), !.Mdmax = One, !.Mhmax = One]

Models == {"NULLMOD", "VDK05MOD", "M12MOD", "DA07MOD", "KM12MOD", "K16MOD"}

\* the per-pft arrays of each variant's table (the other entries are scalars)
Arrays(m) ==
  CASE m = "NULLMOD" -> {"aa", "bb", "cc"}
    [] m = "VDK05MOD" -> {"rB0", "Bmax", "czh", "dP", "dB"}
    [] m = "M12MOD" -> {"Kr", "Tr", "phi", "aa", "bb", "cc"}
    [] m = "DA07MOD" -> {"Bmax"}
    [] m = "KM12MOD" -> {"thetaBG", "Dmbm", "Bmax", "Tref", "sigmaB"}
    [] m = "K16MOD" -> {"Bmax", "phi"}

\* the parameter table the driver hands to the constructor of each variant
ParamsOf(m) ==
  CASE m = "NULLMOD" -> NULLMOD_params
    [] m = "VDK05MOD" -> VDK05MOD_params
    [] m = "M12MOD" -> M12MOD_params
    [] m = "DA07MOD" -> DA07MOD_params
    [] m = "KM12MOD" -> KM12MOD_params
    [] m = "K16MOD" -> K16MOD_params

\* ------------------------------------------------------------ the operations

Half == Q(1, 2)

\* mutation of ZeroFill: the buffer is not reset before the masked write
ZeroFill_skipped(a) == a

\* DepOM[:] = 0.0
ZeroFill(a) == Full(Len(a), Zero)

\* NULLMOD.organic_deposition: the returned DepOM
NULLMOD_DepOM(DepOM) == ZeroFill(DepOM)

\* the validity predicate of NULLMOD.aboveground_biomass
NULLMOD_indice(zh, TR, pft) ==
  MAnd(ElevGate(zh, RMul(Half, TR)), PftGate(pft, 2, 5))

\* mutation of NULLMOD_curve: the quadratic term loses its square
NULLMOD_curve_linear(aa, bb, cc, D) ==
  SMax(Zero, VAdd(VAdd(VMul(aa, D), VMul(bb, D)), cc))

\* np.maximum(0.0, aa*DMHT + bb*(DMHT**2) + cc) at the selected cells
NULLMOD_curve(aa, bb, cc, D) ==
  SMax(Zero, VAdd(VAdd(VMul(aa, D), VMul(bb, VSq(D))), cc))

\* mutation of NULLMOD_Bag: the curve is written to the whole array (Bag[:])
NULLMOD_Bag_unmasked(params, zh, TR, pft, Bag) ==
  NULLMOD_curve(Gather(params.aa, pft), Gather(params.bb, pft),
                Gather(params.cc, pft), SSub(RMul(Half, TR), zh))

\* NULLMOD.aboveground_biomass: the returned Bag
NULLMOD_Bag(params, zh, TR, pft, Bag) ==
  LET indice == NULLMOD_indice(zh, TR, pft)
      p == Take(pft, indice)
  IN Put(Bag, indice,
         NULLMOD_curve(Gather(params.aa, p), Gather(params.bb, p),
                       Gather(params.cc, p),
                       Take(SSub(RMul(Half, TR), zh), indice)))

\* mutation of VDK05MOD_DepOM: the buffer is returned as it came
VDK05MOD_DepOM_kept(DepOM) == DepOM

\* VDK05MOD.organic_deposition: the returned DepOM
VDK05MOD_DepOM(DepOM) == ZeroFill(DepOM)

\* the validity predicate of VDK05MOD.aboveground_biomass
VDK05MOD_indice(pft) == PftGate(pft, 2, 5)

\* the net growth rate A (yr-1) of VDK05MOD.aboveground_biomass at the
\* selected cells
VDK05MOD_A(params, zh, S, Bag, pft) ==
  LET indice == VDK05MOD_indice(pft)
      p == Take(pft, indice)
      z0 == SMax(Zero, Take(zh, indice))
  IN VSub(VSub(VMul(VMul(Gather(params.rB0, p),
                         SSub(One, VDiv(Take(Bag, indice), Gather(params.Bmax, p)))),
                    VDiv(z0, VAdd(z0, Gather(params.czh, p)))),
               Gather(params.dP, p)),
          VMul(Gather(params.dB, p), Take(S, indice)))

\* mutation of VDK05MOD_update: the increment is added to the biomass instead
\* of multiplying it, np.maximum(0.0, (B+x)/(1.0-x))
VDK05MOD_update_additive(B, x) ==
  SMax(Zero, VDiv(VAdd(B, x), SSub(One, x)))

\* mutation of VDK05MOD_update: numerator and denominator are swapped
VDK05MOD_update_swapped(B, x) ==
  SMax(Zero, VDiv(VMul(B, SSub(One, x)), SAdd(One, x)))

\* the update of VDK05MOD.aboveground_biomass at the selected cells, with
\* x = A*dt/3.1536e7: np.maximum(0.0, B*(1.0+x)/(1.0-x))
VDK05MOD_update(B, x) ==
  SMax(Zero, VDiv(VMul(B, SAdd(One, x)), SSub(One, x)))

\* VDK05MOD.aboveground_biomass: the returned Bag
VDK05MOD_Bag(params, zh, S, Bag, pft, dt) ==
  LET indice == VDK05MOD_indice(pft)
  IN Put(Bag, indice,
         VDK05MOD_update(Take(Bag, indice),
                         ADiv(SMul(dt, VDK05MOD_A(params, zh, S, Bag, pft)), Yr)))

\* the validity predicate of M12MOD.organic_deposition
M12MOD_dep_indice(Bag) == [i \in 1..Len(Bag) |-> RGt(Bag[i], Zero)] \o <<>>

\* mutation of M12MOD_DepOM: the turnover time is not converted to seconds
M12MOD_DepOM_perYear(params, Bag, pft, DepOM) ==
  LET indice == M12MOD_dep_indice(Bag)
      p == Take(pft, indice)
  IN Put(ZeroFill(DepOM), indice,
         VDiv(VMul(Gather(params.Kr, p),
                   VMul(Gather(params.phi, p), Take(Bag, indice))),
              Gather(params.Tr, p)))

\* M12MOD.organic_deposition: the returned DepOM
M12MOD_DepOM(params, Bag, pft, DepOM) ==
  LET zeroed == ZeroFill(DepOM)
      indice == M12MOD_dep_indice(Bag)
      p == Take(pft, indice)
  IN Put(zeroed, indice,
         VDiv(VMul(Gather(params.Kr, p),
                   VMul(Gather(params.phi, p), Take(Bag, indice))),
              SMul(Yr, Gather(params.Tr, p))))

\* mutation of M12MOD_indice: the lower elevation bound is strict (zh > 0)
M12MOD_indice_open(zh, TR, pft) ==
  [i \in 1..Len(zh) |->
     RGt(zh[i], Zero) /\ RLeq(zh[i], RMul(Half, TR)) /\ pft[i] >= 2 /\ pft[i] <= 5] \o <<>>

\* the validity predicate of M12MOD.aboveground_biomass
M12MOD_indice(zh, TR, pft) ==
  MAnd(ElevGate(zh, RMul(Half, TR)), PftGate(pft, 2, 5))

\* M12MOD.aboveground_biomass: the returned Bag
M12MOD_Bag(params, zh, TR, pft, Bag) ==
  LET MHT == RMul(Half, TR)
      indice == M12MOD_indice(zh, TR, pft)
      DMHT == SSub(MHT, Take(zh, indice))
      p == Take(pft, indice)
  IN Put(Bag, indice,
         SMax(Zero, VAdd(VAdd(VMul(Gather(params.aa, p), DMHT),
                              VMul(Gather(params.bb, p), VSq(DMHT))),
                         Gather(params.cc, p))))

\* the validity predicate of DA07MOD.organic_deposition
DA07MOD_dep_indice(Bag) == [i \in 1..Len(Bag) |-> RGt(Bag[i], TOL)] \o <<>>

\* DA07MOD.organic_deposition: the returned DepOM
DA07MOD_DepOM(params, Bag, pft, DepOM) ==
  LET zeroed == ZeroFill(DepOM)
      indice == DA07MOD_dep_indice(Bag)
      p == Take(pft, indice)
  IN Put(zeroed, indice,
         VDiv(SMul(RMul(RDiv(params.Qom0, Yr), params.rhoOM), Take(Bag, indice)),
              Gather(params.Bmax, p)))

\* the validity predicate of DA07MOD.aboveground_biomass
DA07MOD_indice(zh, TR) == ElevGate(zh, RMul(Half, TR))

\* DA07MOD.aboveground_biomass: the returned Bag
DA07MOD_Bag(params, Bag, zh, pft, TR, m) ==
  LET MHT == RMul(Half, TR)
      indice == DA07MOD_indice(zh, TR)
      p == Take(pft, indice)
      Bps == VMul(ADiv(SSub(MHT, Take(zh, indice)), MHT), Gather(params.Bmax, p))
      season == RAdd(SinPi12(2 * m - params.mps), One)
  IN Put(Bag, indice,
         VAdd(SMul(season, SMul(RSub(One, params.omega), SMul(Half, Bps))),
              SMul(params.omega, Bps)))

\* the validity predicate of every KM12MOD operation on the transect
KM12MOD_indice(zh, MHHW) == ElevGate(zh, MHHW)

\* the root:shoot quotient phi of KM12MOD at the selected cells
KM12MOD_phi(params, zh, pft, MHHW) ==
  LET indice == KM12MOD_indice(zh, MHHW)
      p == Take(pft, indice)
  IN VAdd(VMul(Gather(params.thetaBG, p), SSub(MHHW, Take(zh, indice))),
          Gather(params.Dmbm, p))

\* the peak season Bag (Bps) of KM12MOD at the selected cells
KM12MOD_Bps(params, Tair, zh, pft, MHHW) ==
  LET indice == KM12MOD_indice(zh, MHHW)
      p == Take(pft, indice)
  IN VMul(ADiv(VMul(Gather(params.Bmax, p), SSub(MHHW, Take(zh, indice))), MHHW),
          SAdd(One, VMul(SSub(Tair, Gather(params.Tref, p)),
                         Gather(params.sigmaB, p))))

\* the phase shift (in days) between Gps and Bps
jd_phi == 56

\* the aboveground biomass turnover Mag of KM12MOD.organic_deposition, from
\* the peak season biomass Bps
KM12MOD_Mag(params, Bps, jd) ==
  LET Bmin == SMul(params.rBmin, Bps)
      Gmin == SMul(RDiv(params.rGmin, Day), Bps)
      Gps == SMul(RDiv(params.rGps, Day), Bps)
  IN VAdd(SMul(Half,
               VAdd(VAdd(Gmin, Gps),
                    SMul(Cos365(jd - params.jdps + jd_phi), VSub(Gps, Gmin)))),
          SMul(Sin365(jd - params.jdps),
               SMul(RDiv(Pi, Q(365, 1)), VSub(Bps, Bmin))))

\* KM12MOD.organic_deposition: the returned DepOM
KM12MOD_DepOM(params, Tair, zh, pft, MHHW, jd, DepOM) ==
  Put(ZeroFill(DepOM), KM12MOD_indice(zh, MHHW),
      VMul(SMax(Zero, KM12MOD_phi(params, zh, pft, MHHW)),
           SMax(Zero, KM12MOD_Mag(params,
                                  KM12MOD_Bps(params, Tair, zh, pft, MHHW), jd))))

\* the seasonal biomass of KM12MOD.aboveground_biomass, from the peak season
\* biomass Bps
KM12MOD_season(params, Bps, jd) ==
  LET Bmin == SMul(params.rBmin, Bps)
  IN SMax(Zero, SMul(Half, VAdd(VAdd(Bmin, Bps),
                                SMul(Cos365(jd - params.jdps), VSub(Bps, Bmin)))))

\* KM12MOD.aboveground_biomass: the returned Bag
KM12MOD_Bag(params, Tair, zh, pft, Bag, MHHW, jd) ==
  Put(Bag, KM12MOD_indice(zh, MHHW),
      KM12MOD_season(params, KM12MOD_Bps(params, Tair, zh, pft, MHHW), jd))

\* KM12MOD.belowground_biomass: the returned Bbg
KM12MOD_Bbg(params, Bag, Bbg, zh, pft, MHHW) ==
  LET indice == KM12MOD_indice(zh, MHHW)
  IN Put(Bbg, indice,
         VMul(SMax(Zero, KM12MOD_phi(params, zh, pft, MHHW)),
              SMax(Zero, Take(Bag, indice))))

\* mutation of KM12MOD_DecayOM: the decay of each pool is floored at zero
KM12MOD_DecayOM_floored(params, DecayOM, SOM, Tsoi) ==
  [i \in 1..Len(DecayOM) |->
     <<RMax(Zero, RMul(RDiv(RMul(RAdd(One, RMul(RSub(Tsoi, params.TrefOM),
                                                params.sigmaOM)),
                                 params.kl0), Yr), SOM[i][1])),
       RMax(Zero, RMul(RDiv(RMul(RAdd(One, RMul(RSub(Tsoi, params.TrefOM),
                                                params.sigmaOM)),
                                 params.kr0), Yr), SOM[i][2]))>>] \o <<>>

\* KM12MOD.soilcarbon_decay: the returned DecayOM; OM and DecayOM hold, per
\* cell, the pair <<labile, refractory>>
KM12MOD_DecayOM(params, DecayOM, SOM, Tsoi) ==
  LET f == RAdd(One, RMul(RSub(Tsoi, params.TrefOM), params.sigmaOM))
  IN [i \in 1..Len(DecayOM) |->
        <<RMul(RDiv(RMul(f, params.kl0), Yr), SOM[i][1]),
          RMul(RDiv(RMul(f, params.kr0), Yr), SOM[i][2])>>] \o <<>>

\* K16MOD.organic_deposition: the returned DepOM
K16MOD_DepOM(params, DepOM, Bag) ==
  SMul(RDiv(RMul(params.rhoOM, params.gammaB), Yr), Bag)

\* the net rate rz*(1-Bag/Bmax)-mz of the K16MOD marsh branches at the
\* selected cells: rz and mz are the production and mortality rates
K16MOD_A(B, Bmaxp, rz, mz) == VSub(VMul(rz, SSub(One, VDiv(B, Bmaxp))), mz)

\* the semi-implicit update of the K16MOD marsh branches at the selected cells
K16MOD_step(B, Bmaxp, rz, mz, dt) ==
  LET h == SMul(dt, SMul(Half, K16MOD_A(B, Bmaxp, rz, mz)))
  IN SMax(Zero, VDiv(VMul(SAdd(One, h), B), SSub(One, h)))

\* the elevation gate of K16MOD
K16MOD_indice_zh(zh, TR) == ElevGate(zh, RMul(Half, TR))

\* pft == c
PftIs(pft, c) == [i \in 1..Len(pft) |-> pft[i] = c] \o <<>>

\* np.logical_or(m1, m2)
MOr(m1, m2) == [i \in 1..Len(m1) |-> m1[i] \/ m2[i]] \o <<>>

\* the cells of the Spartina alterniflora branch of K16MOD
K16MOD_indice2(zh, pft, TR) == MAnd(K16MOD_indice_zh(zh, TR), PftIs(pft, 2))

\* its Bag production rate (s-1) and Bag mortality rate (s-1), from the
\* selected zh
K16MOD_rz2(z, MHT) == ADiv(SSub(One, ADiv(SMul(Half, z), MHT)), Yr)
K16MOD_mz2(z, MHT) == ADiv(ADiv(SMul(Half, z), MHT), Yr)

\* K16MOD.aboveground_biomass, Spartina alterniflora dominated marshes
K16MOD_Bag2(params, Bag, zh, pft, TR, dt) ==
  LET indice == K16MOD_indice2(zh, pft, TR)
  IN Put(Bag, indice,
         K16MOD_step(Take(Bag, indice), Gather(params.Bmax, Take(pft, indice)),
                     K16MOD_rz2(Take(zh, indice), RMul(Half, TR)),
                     K16MOD_mz2(Take(zh, indice), RMul(Half, TR)), dt))

\* the cells of the multi-species marsh branch of K16MOD
K16MOD_indice34(zh, pft, TR) ==
  MAnd(MOr(PftIs(pft, 3), PftIs(pft, 4)), K16MOD_indice_zh(zh, TR))

\* its production and mortality rates, from the selected zh
K16MOD_rz34(z, MHT) == SMul(Half, SAdd(One, ADiv(z, MHT)))
K16MOD_mz34(z, MHT) == SMul(Half, SSub(One, ADiv(z, MHT)))

\* K16MOD.aboveground_biomass, multi-species marshes
K16MOD_Bag34(params, Bag, zh, pft, TR, dt) ==
  LET indice == K16MOD_indice34(zh, pft, TR)
  IN Put(Bag, indice,
         K16MOD_step(Take(Bag, indice), Gather(params.Bmax, Take(pft, indice)),
                     K16MOD_rz34(Take(zh, indice), RMul(Half, TR)),
                     K16MOD_mz34(Take(zh, indice), RMul(Half, TR)), dt))

\* the inundation stress I of the mangrove branch, from the selected zh
K16MOD_I(z, MHT) ==
  LET P == SSub(One, ADiv(z, MHT))
  IN SMax(Zero, SAdd(Half, VSub(SMul(Q(4, 1), P), SMul(Q(8, 1), VSq(P)))))

\* the new stem diameter self.Md[indice] of the mangrove branch
K16MOD_newMd(params, md, mh, I, dt) ==
  LET denom == VSub(SAdd(Q(274, 1), SMul(RMul(Q(3, 1), params.b2mgv), md)),
                    SMul(RMul(Q(4, 1), params.b3mgv), VSq(md)))
      rate == ADiv(ADiv(SMul(params.Gmgv, SMul(dt, I)), params.Mdmax), params.Mhmax)
  IN VAdd(md, VDiv(VMul(VMul(rate, md), SSub(One, VMul(md, mh))), denom))

\* the new tree height self.Mh[indice] of the mangrove branch
K16MOD_newMh(params, newMd) ==
  VAdd(SAdd(Q(137, 1), SMul(params.b2mgv, newMd)), SMul(params.b3mgv, VSq(newMd)))

\* mutation of K16MOD_mangrove_Bag: a zero diameter is special-cased to no
\* biomass
K16MOD_mangrove_Bag_guarded(newMd) ==
  [j \in 1..Len(newMd) |->
     IF newMd[j] = Zero THEN Zero
     ELSE RMul(RMul(Q(308, 1000), RDiv(Half, newMd[j])),
               RPow(newMd[j], Q(211, 100)))] \o <<>>

\* the Bag of the mangrove branch: rout = 0.5/Md, Bag = rout*0.308*Md**2.11
K16MOD_mangrove_Bag(newMd) ==
  VMul(SMul(Q(308, 1000), SDiv(Half, newMd)), VPow(newMd, Q(211, 100)))

\* the three in-place writes of the mangrove branch
K16MOD_mangrove_write(params, Bag, Md, Mh, indice, newMd) ==
  [Md |-> Put(Md, indice, newMd),
   Mh |-> Put(Mh, indice, K16MOD_newMh(params, newMd)),
   Bag |-> Put(Bag, indice, K16MOD_mangrove_Bag(newMd))]

\* the cells of the mangrove branch of K16MOD
K16MOD_indice5(zh, pft, TR) == MAnd(K16MOD_indice_zh(zh, TR), PftIs(pft, 5))

\* mutation of K16MOD_mangrove: the height is recomputed before the diameter
\* is advanced (from the old Md), and the diameter then uses the new height
K16MOD_mangrove_heightFirst(params, Bag, Md, Mh, zh, pft, TR, dt) ==
  [Md |-> Put(Md, K16MOD_indice5(zh, pft, TR),
              K16MOD_newMd(params, Take(Md, K16MOD_indice5(zh, pft, TR)),
                           K16MOD_newMh(params,
                                        Take(Md, K16MOD_indice5(zh, pft, TR))),
                           K16MOD_I(Take(zh, K16MOD_indice5(zh, pft, TR)),
                                    RMul(Half, TR)), dt)),
   Mh |-> Put(Mh, K16MOD_indice5(zh, pft, TR),
              K16MOD_newMh(params, Take(Md, K16MOD_indice5(zh, pft, TR)))),
   Bag |-> Put(Bag, K16MOD_indice5(zh, pft, TR),
               K16MOD_mangrove_Bag(Take(Md, K16MOD_indice5(zh, pft, TR))))]

\* K16MOD.aboveground_biomass, mangroves: the new Md, Mh and Bag
K16MOD_mangrove(params, Bag, Md, Mh, zh, pft, TR, dt) ==
  LET indice == K16MOD_indice5(zh, pft, TR)
  IN K16MOD_mangrove_write(params, Bag, Md, Mh, indice,
       K16MOD_newMd(params, Take(Md, indice), Take(Mh, indice),
                    K16MOD_I(Take(zh, indice), RMul(Half, TR)), dt))

\* K16MOD.aboveground_biomass: the three branches in program order
K16MOD_Bag(params, Bag, Md, Mh, zh, pft, TR, dt) ==
  K16MOD_mangrove(params,
                  K16MOD_Bag34(params, K16MOD_Bag2(params, Bag, zh, pft, TR, dt),
                               zh, pft, TR, dt),
                  Md, Mh, zh, pft, TR, dt)

\* K16MOD.belowground_biomass: the returned Bbg
K16MOD_Bbg(params, Bbg, Bag, Md, pft, zh, TR) ==
  LET indice_zh == K16MOD_indice_zh(zh, TR)
      marsh == MAnd(PftGate(pft, 2, 4), indice_zh)
      b1 == Put(Bbg, marsh,
                VMul(Gather(params.phi, Take(pft, marsh)), Take(Bag, marsh)))
      mangrove == MAnd(indice_zh, PftIs(pft, 5))
      md == Take(Md, mangrove)
      rout == SDiv(Half, md)
  IN Put(b1, mangrove, VMul(SMul(Q(128, 100), rout), VPow(md, Q(117, 100))))

\* ------------------------------------------- the seasonal terms in binary64

\* mutation of KM12MOD_cos_f64: a year of 366 days
KM12MOD_cos_f64_leap(jd, jdps) ==
  CASE jd - jdps = 0 -> <<1, <<0, 0, 0, 0, 1>>, -52>>
    [] jd - jdps = 91 -> <<1, <<1659, 547, 3541, 808, 1>>, -59>>
    [] jd - jdps = 365 -> <<1, <<2438, 5814, 4798, 8189, 1>>, -53>>
    [] jd - jdps = 456 -> <<1, <<2094, 724, 2639, 5307, 1>>, -58>>

\* np.cos(2*np.pi*(jd-jdps)/365)
KM12MOD_cos_f64(jd, jdps) == Cos365_f64(jd - jdps)

\* Bmax*(MHHW-zh)/MHHW*(1+(Tair-Tref)*sigmaB) at one cell
KM12MOD_Bps_f64(Bmax, MHHW, zh, Tair, Tref, sigmaB) ==
  FMul(FDiv(FMul(Bmax, FSub(MHHW, zh)), MHHW),
       FAdd(FInt(1), FMul(FSub(Tair, Tref), sigmaB)))

\* the literal 0.5
Half_f64 == F(1, 2)

\* np.maximum(0.5*(Bmin+Bps+(Bps-Bmin)*cos), 0.0) at one cell
KM12MOD_curve_f64(Bmin, Bps, c) ==
  FMax0(FMul(Half_f64, FAdd(FAdd(Bmin, Bps), FMul(FSub(Bps, Bmin), c))))

KM12MOD_cell_f64(rBmin, Bps, c) == KM12MOD_curve_f64(FMul(rBmin, Bps), Bps, c)

\* KM12MOD.aboveground_biomass in binary64, on the binary64 values of the
\* table, of the inputs and of the Bag buffer; indice is the gate of the
\* decimal inputs (rounding to binary64 keeps their order)
KM12MOD_Bag_f64(params, jdps, Tair, zh, pft, Bag, MHHW, indice, jd) ==
  [i \in 1..Len(pft) |->
     IF indice[i]
       THEN KM12MOD_cell_f64(
              params.rBmin,
              KM12MOD_Bps_f64(params.Bmax[pft[i]], MHHW, zh[i], Tair,
                              params.Tref[pft[i]], params.sigmaB[pft[i]]),
              KM12MOD_cos_f64(jd, jdps))
       ELSE Bag[i]] \o <<>>

\* (MHT - zh)/MHT*Bmax at one cell
DA07MOD_Bps_f64(MHT, zh, Bmax) == FMul(FDiv(FSub(MHT, zh), MHT), Bmax)

\* 0.5*Bps*(1-omega)*(sin+1) + omega*Bps at one cell
DA07MOD_cell_f64(Bps, omega, sn) ==
  FAdd(FMul(FMul(FMul(Half_f64, Bps), FSub(FInt(1), omega)),
            FAdd(sn, FInt(1))),
       FMul(omega, Bps))

\* DA07MOD.aboveground_biomass in binary64, with MHT = 0.5*inputs['TR']
DA07MOD_Bag_f64(params, mps, Bag, zh, pft, MHT, indice, m) ==
  [i \in 1..Len(pft) |->
     IF indice[i]
       THEN DA07MOD_cell_f64(
              DA07MOD_Bps_f64(MHT, zh[i], params.Bmax[pft[i]]),
              params.omega, SinPi6_f64(m, mps))
       ELSE Bag[i]] \o <<>>

\* the table of an instance as numpy holds it, for the coefficients of the
\* seasonal expressions
Table_f64(tab) == [p \in DOMAIN tab |-> ToDbl(tab[p])]

Params_f64(m, params) ==
  CASE m = "KM12MOD" ->
         [rBmin |-> ToDbl(params.rBmin), Bmax |-> Table_f64(params.Bmax),
          Tref |-> Table_f64(params.Tref),
          sigmaB |-> Table_f64(params.sigmaB)]
    [] m = "DA07MOD" ->
         [Bmax |-> Table_f64(params.Bmax), omega |-> ToDbl(params.omega)]
    [] OTHER -> <<>>

\* tab[pft[indice]] for every table of tabs finds its coefficient: an integer
\* index past the end of an array raises IndexError
InTable(tabs, pft, indice) ==
  \A tab \in tabs : \A i \in 1..Len(pft) : indice[i] => pft[i] \in DOMAIN tab

\* the cells at which K16MOD.aboveground_biomass indexes Bmax
K16MOD_lookups(zh, pft, TR) ==
  MOr(K16MOD_indice2(zh, pft, TR), K16MOD_indice34(zh, pft, TR))

\* the cells at which K16MOD.belowground_biomass indexes phi
K16MOD_marsh(zh, pft, TR) == MAnd(PftGate(pft, 2, 4), K16MOD_indice_zh(zh, TR))

\* ------------------------------------------------------------ the state

VARIABLES
  model,      \* the variant the driver constructed
  m_params,   \* self.m_params
  Md, Mh,     \* self.Md, self.Mh of K16MOD (<<>> in the other variants)
  peer,       \* m_params, Md, Mh of a second K16MOD instance
  obj,        \* the array objects the Md and Mh of both instances are bound to
  fault,      \* the exception a call has raised, "none" while none has
  f64,        \* Bag as binary64 after the last two seasonal calls
  zh, pft,    \* inputs['zh'], inputs['pft']: elevation and pft of each cell
  TR, MHHW,   \* inputs['TR'], inputs['MHHW']
  S,          \* inputs['S']: surface slope of each cell
  OM,         \* inputs['OM']: <<labile, refractory>> pool of each cell
  Bag, Bbg,   \* inputs['Bag'], inputs['Bbg']
  DepOM,      \* inputs['DepOM']
  DecayOM,    \* inputs['DecayOM']
  call,       \* the last call: operation and the scalar inputs it was given
  ncalls,     \* the number of calls made so far
  pre         \* the buffers as they were when the last call started

driver == <<zh, pft, TR, MHHW, S, OM>>
vars == <<model, m_params, Md, Mh, peer, obj, fault, f64, zh, pft, TR, MHHW, S, OM, Bag, Bbg, DepOM,
          DecayOM, call, ncalls, pre>>

\* the largest numerator or denominator of a Bag the semi-implicit updates
\* are applied to
MaxNum == 2000

Small(x) == Abs(x[1]) <= MaxNum /\ x[2] <= MaxNum

\* (zh, pft, Bag) of a cell at the start of the run, with TR = 1 (MHT = 0.5)
\* and MHHW = 0.6: every pft branch inside the elevation gate, both gate
\* boundaries, cells below and above the gate, and unvegetated cells
CellKinds ==
  << <<Q(3, 10), 2, Q(2, 5)>>, <<Q(1, 2), 3, One>>, <<Zero, 4, One>>,
     <<Q(3, 10), 5, One>>, <<Q(3, 10), 1, Zero>>, <<Q(-1, 5), 2, One>>,
     <<Q(4, 5), 7, One>>, <<Q(11, 20), 2, One>>, <<Q(1, 2), 2, One>> >>

\* the transects of nx cells: every operation is elementwise, so the order
\* of the cells is immaterial and the kinds are laid out in the order of
\* the list above
Transects ==
  {c \in [Cells -> 1..Len(CellKinds)] : \A i \in 1..(nx - 1) : c[i] <= c[i + 1]}

TRSet == {One}
MHHWSet == {Q(3, 5)}
\* time steps (s): half a year, two years, ten years
DtSet == {<<1, 2, 1>>, <<2, 1, 1>>, <<10, 1, 1>>}
MonthSet == {1, 5, 7}
\* (day of year, air temperature (K)) of a call: the peak day at the
\* reference temperature, and a cold autumn day
SeasonSet == {<<200, Q(293, 1)>>, <<291, Q(263, 1)>>}
TairSet == {sn[2] : sn \in SeasonSet}

\* the number of calls the driver makes in a run
MaxCalls == 2

NoCall == [op |-> "init", on |-> "self", dt |-> Zero, month |-> 0, dofy |-> 0,
           Tair |-> Zero]

Snapshot == [Bag |-> Bag, Bbg |-> Bbg, DepOM |-> DepOM, DecayOM |-> DecayOM,
             Md |-> Md, Mh |-> Mh, peer |-> peer, m_params |-> m_params]

\* Objects.  An attribute holds a reference: 0 is the None the class
\* statement binds Md and Mh to, and every np.zeros call of a constructor
\* makes a new array object, named by the next unused number.
None == 0

\* K16MOD.__init__ bound every instance to the arrays of the first one.
K16MOD_init_shared(id, params, n) ==
  [m_params |-> params, Md |-> Full(n, Zero), Mh |-> Full(n, Zero),
   ids |-> [Md |-> None + 1, Mh |-> None + 2]]

\* K16MOD.__init__(params, nx): the instance keeps the table it is given and
\* binds Md and Mh to two arrays of zeros made for it; id is the first unused
\* object number.
K16MOD_init(id, params, n) ==
  [m_params |-> params, Md |-> Full(n, Zero), Mh |-> Full(n, Zero),
   ids |-> [Md |-> id, Mh |-> id + 1]]

\* The variants without Md and Mh: both names stay bound to the class's None.
NoInstance == [m_params |-> <<>>, Md |-> <<>>, Mh |-> <<>>,
               ids |-> [Md |-> None, Mh |-> None]]

\* What an attribute bound to object id holds after an in-place write of new
\* into object wid.
Seen(id, wid, new, old) == IF id = wid THEN new ELSE old

\* Two instances made one after the other from the same class.
TwoInstances(a, b) ==
  /\ Md = a.Md
  /\ Mh = a.Mh
  /\ peer = [m_params |-> b.m_params, Md |-> b.Md, Mh |-> b.Mh]
  /\ obj = [self |-> a.ids, peer |-> b.ids]

\* no seasonal call yet
NoSeason == <<0, Zero>>

\* X.__init__(params): self.m_params = params and nothing else (K16MOD adds
\* Md and Mh); no constructor looks into the table, so none raises.
Constructed ==
  /\ fault = "none"
  /\ IF model = "K16MOD"
       THEN TwoInstances(K16MOD_init(None + 1, m_params, nx),
                         K16MOD_init(None + 3, m_params, nx))
       ELSE TwoInstances(NoInstance, NoInstance)
  /\ \E c \in Transects :
       /\ zh = [i \in Cells |-> CellKinds[c[i]][1]]
       /\ pft = [i \in Cells |-> CellKinds[c[i]][2]]
       /\ Bag = [i \in Cells |-> CellKinds[c[i]][3]]
  /\ TR \in TRSet
  /\ MHHW \in MHHWSet
  /\ S = Full(nx, Half)
  /\ OM = Full(nx, <<One, Q(2, 1)>>)
  /\ Bbg = Full(nx, Half)
  /\ DepOM = Full(nx, RDiv(One, Yr))
  /\ DecayOM = Full(nx, <<Zero, Zero>>)
  /\ call = NoCall
  /\ ncalls = 0
  /\ pre = [Bag |-> Bag, Bbg |-> Bbg, DepOM |-> DepOM, DecayOM |-> DecayOM,
            Md |-> Md, Mh |-> Mh, peer |-> peer, m_params |-> m_params]
  /\ f64 = [Bag |-> [i \in Cells |-> ToDbl(Bag[i])] \o <<>>,
            zh |-> [i \in Cells |-> ToDbl(zh[i])] \o <<>>,
            TR |-> ToDbl(TR), MHHW |-> ToDbl(MHHW),
            params |-> Params_f64(model, m_params),
            at |-> NoSeason, Bag0 |-> <<>>, at0 |-> NoSeason]

Init ==
  /\ model \in Models
  /\ m_params = ParamsOf(model)
  /\ Constructed

\* ------------------------------------------------------------ the calls

\* NULLMOD.organic_deposition(inputs)
NULLMOD_organic_deposition ==
  /\ model = "NULLMOD"
  /\ ncalls < MaxCalls
  /\ DepOM' = NULLMOD_DepOM(DepOM)
  /\ call' = [on |-> "self", op |-> "organic_deposition", dt |-> Zero, month |-> 0, dofy |-> 0, Tair |-> Zero]
  /\ pre' = Snapshot
  /\ ncalls' = ncalls + 1
  /\ UNCHANGED <<model, m_params, driver, Bag, Bbg, DecayOM, Md, Mh, peer, obj, fault, f64>>

\* NULLMOD.aboveground_biomass(inputs)
NULLMOD_aboveground_biomass ==
  /\ model = "NULLMOD"
  /\ ncalls < MaxCalls
  /\ InTable({m_params.aa, m_params.bb, m_params.cc}, pft,
             NULLMOD_indice(zh, TR, pft))
  /\ Bag' = NULLMOD_Bag(m_params, zh, TR, pft, Bag)
  /\ call' = [on |-> "self", op |-> "aboveground_biomass", dt |-> Zero, month |-> 0, dofy |-> 0, Tair |-> Zero]
  /\ pre' = Snapshot
  /\ ncalls' = ncalls + 1
  /\ UNCHANGED <<model, m_params, driver, Bbg, DepOM, DecayOM, Md, Mh, peer, obj, fault, f64>>

\* VDK05MOD.organic_deposition(inputs)
VDK05MOD_organic_deposition ==
  /\ model = "VDK05MOD"
  /\ ncalls < MaxCalls
  /\ DepOM' = VDK05MOD_DepOM(DepOM)
  /\ call' = [on |-> "self", op |-> "organic_deposition", dt |-> Zero, month |-> 0, dofy |-> 0, Tair |-> Zero]
  /\ pre' = Snapshot
  /\ ncalls' = ncalls + 1
  /\ UNCHANGED <<model, m_params, driver, Bag, Bbg, DecayOM, Md, Mh, peer, obj, fault, f64>>

\* VDK05MOD.aboveground_biomass(inputs)
VDK05MOD_aboveground_biomass ==
  /\ model = "VDK05MOD"
  /\ ncalls < MaxCalls
  /\ InTable({m_params.rB0, m_params.Bmax, m_params.czh, m_params.dP,
              m_params.dB}, pft, VDK05MOD_indice(pft))
  /\ \E dt \in DtSet :
       /\ \A i \in Cells : Small(Bag[i])
       /\ Bag' = VDK05MOD_Bag(m_params, zh, S, Bag, pft, dt)
       /\ call' = [on |-> "self", op |-> "aboveground_biomass", dt |-> dt, month |-> 0, dofy |-> 0, Tair |-> Zero]
  /\ pre' = Snapshot
  /\ ncalls' = ncalls + 1
  /\ UNCHANGED <<model, m_params, driver, Bbg, DepOM, DecayOM, Md, Mh, peer, obj, fault, f64>>

\* M12MOD.organic_deposition(inputs)
M12MOD_organic_deposition ==
  /\ model = "M12MOD"
  /\ ncalls < MaxCalls
  /\ InTable({m_params.Kr, m_params.phi, m_params.Tr}, pft,
             M12MOD_dep_indice(Bag))
  /\ DepOM' = M12MOD_DepOM(m_params, Bag, pft, DepOM)
  /\ call' = [on |-> "self", op |-> "organic_deposition", dt |-> Zero, month |-> 0, dofy |-> 0, Tair |-> Zero]
  /\ pre' = Snapshot
  /\ ncalls' = ncalls + 1
  /\ UNCHANGED <<model, m_params, driver, Bag, Bbg, DecayOM, Md, Mh, peer, obj, fault, f64>>

\* M12MOD.aboveground_biomass(inputs)
M12MOD_aboveground_biomass ==
  /\ model = "M12MOD"
  /\ ncalls < MaxCalls
  /\ InTable({m_params.aa, m_params.bb, m_params.cc}, pft,
             M12MOD_indice(zh, TR, pft))
  /\ Bag' = M12MOD_Bag(m_params, zh, TR, pft, Bag)
  /\ call' = [on |-> "self", op |-> "aboveground_biomass", dt |-> Zero, month |-> 0, dofy |-> 0, Tair |-> Zero]
  /\ pre' = Snapshot
  /\ ncalls' = ncalls + 1
  /\ UNCHANGED <<model, m_params, driver, Bbg, DepOM, DecayOM, Md, Mh, peer, obj, fault, f64>>

\* DA07MOD.organic_deposition(inputs)
DA07MOD_organic_deposition ==
  /\ model = "DA07MOD"
  /\ ncalls < MaxCalls
  /\ InTable({m_params.Bmax}, pft, DA07MOD_dep_indice(Bag))
  /\ DepOM' = DA07MOD_DepOM(m_params, Bag, pft, DepOM)
  /\ call' = [on |-> "self", op |-> "organic_deposition", dt |-> Zero, month |-> 0, dofy |-> 0, Tair |-> Zero]
  /\ pre' = Snapshot
  /\ ncalls' = ncalls + 1
  /\ UNCHANGED <<model, m_params, driver, Bag, Bbg, DecayOM, Md, Mh, peer, obj, fault, f64>>

\* DA07MOD.aboveground_biomass(inputs)
DA07MOD_aboveground_biomass ==
  /\ model = "DA07MOD"
  /\ ncalls < MaxCalls
  /\ InTable({m_params.Bmax}, pft, DA07MOD_indice(zh, TR))
  /\ \E month \in MonthSet :
       /\ Bag' = DA07MOD_Bag(m_params, Bag, zh, pft, TR, month)
       /\ call' = [on |-> "self", op |-> "aboveground_biomass", dt |-> Zero, month |-> month, dofy |-> 0, Tair |-> Zero]
  /\ pre' = Snapshot
  /\ ncalls' = ncalls + 1
  /\ UNCHANGED <<model, m_params, driver, Bbg, DepOM, DecayOM, Md, Mh, peer, obj, fault, f64>>

\* KM12MOD.organic_deposition(inputs)
KM12MOD_organic_deposition ==
  /\ model = "KM12MOD"
  /\ ncalls < MaxCalls
  /\ InTable({m_params.thetaBG, m_params.Dmbm, m_params.Bmax, m_params.Tref,
              m_params.sigmaB}, pft, KM12MOD_indice(zh, MHHW))
  /\ \E sn \in SeasonSet :
       /\ DepOM' = KM12MOD_DepOM(m_params, sn[2], zh, pft, MHHW, sn[1], DepOM)
       /\ call' = [on |-> "self", op |-> "organic_deposition", dt |-> Zero, month |-> 0, dofy |-> sn[1], Tair |-> sn[2]]
  /\ pre' = Snapshot
  /\ ncalls' = ncalls + 1
  /\ UNCHANGED <<model, m_params, driver, Bag, Bbg, DecayOM, Md, Mh, peer, obj, fault, f64>>

\* KM12MOD.aboveground_biomass(inputs)
KM12MOD_aboveground_biomass ==
  /\ model = "KM12MOD"
  /\ ncalls < MaxCalls
  /\ InTable({m_params.Bmax, m_params.Tref, m_params.sigmaB}, pft,
             KM12MOD_indice(zh, MHHW))
  /\ \E sn \in SeasonSet :
       /\ Bag' = KM12MOD_Bag(m_params, sn[2], zh, pft, Bag, MHHW, sn[1])
       /\ call' = [on |-> "self", op |-> "aboveground_biomass", dt |-> Zero, month |-> 0, dofy |-> sn[1], Tair |-> sn[2]]
  /\ pre' = Snapshot
  /\ ncalls' = ncalls + 1
  /\ UNCHANGED <<model, m_params, driver, Bbg, DepOM, DecayOM, Md, Mh, peer, obj, fault, f64>>

\* mutation of KM12MOD_belowground_biomass: the result is also written into
\* the Bag buffer
KM12MOD_belowground_biomass_intoBag ==
  /\ model = "KM12MOD"
  /\ ncalls < MaxCalls
  /\ InTable({m_params.thetaBG, m_params.Dmbm}, pft,
             KM12MOD_indice(zh, MHHW))
  /\ Bbg' = KM12MOD_Bbg(m_params, Bag, Bbg, zh, pft, MHHW)
  /\ Bag' = KM12MOD_Bbg(m_params, Bag, Bbg, zh, pft, MHHW)
  /\ call' = [on |-> "self", op |-> "belowground_biomass", dt |-> Zero, month |-> 0, dofy |-> 0, Tair |-> Zero]
  /\ pre' = Snapshot
  /\ ncalls' = ncalls + 1
  /\ UNCHANGED <<model, m_params, driver, DepOM, DecayOM, Md, Mh, peer, obj, fault, f64>>

\* KM12MOD.belowground_biomass(inputs)
KM12MOD_belowground_biomass ==
  /\ model = "KM12MOD"
  /\ ncalls < MaxCalls
  /\ InTable({m_params.thetaBG, m_params.Dmbm}, pft,
             KM12MOD_indice(zh, MHHW))
  /\ Bbg' = KM12MOD_Bbg(m_params, Bag, Bbg, zh, pft, MHHW)
  /\ call' = [on |-> "self", op |-> "belowground_biomass", dt |-> Zero, month |-> 0, dofy |-> 0, Tair |-> Zero]
  /\ pre' = Snapshot
  /\ ncalls' = ncalls + 1
  /\ UNCHANGED <<model, m_params, driver, Bag, DepOM, DecayOM, Md, Mh, peer, obj, fault, f64>>

\* KM12MOD.soilcarbon_decay(inputs)
KM12MOD_soilcarbon_decay ==
  /\ model = "KM12MOD"
  /\ ncalls < MaxCalls
  /\ \E Tair \in TairSet :
       /\ DecayOM' = KM12MOD_DecayOM(m_params, DecayOM, OM, Tair)
       /\ call' = [on |-> "self", op |-> "soilcarbon_decay", dt |-> Zero, month |-> 0, dofy |-> 0, Tair |-> Tair]
  /\ pre' = Snapshot
  /\ ncalls' = ncalls + 1
  /\ UNCHANGED <<model, m_params, driver, Bag, Bbg, DepOM, Md, Mh, peer, obj, fault, f64>>

\* K16MOD.organic_deposition(inputs)
K16MOD_organic_deposition ==
  /\ model = "K16MOD"
  /\ ncalls < MaxCalls
  /\ DepOM' = K16MOD_DepOM(m_params, DepOM, Bag)
  /\ call' = [on |-> "self", op |-> "organic_deposition", dt |-> Zero, month |-> 0, dofy |-> 0, Tair |-> Zero]
  /\ pre' = Snapshot
  /\ ncalls' = ncalls + 1
  /\ UNCHANGED <<model, m_params, driver, Bag, Bbg, DecayOM, Md, Mh, peer, obj, fault, f64>>

\* K16MOD.aboveground_biomass(inputs)
K16MOD_aboveground_biomass ==
  /\ model = "K16MOD"
  /\ ncalls < MaxCalls
  /\ InTable({m_params.Bmax}, pft, K16MOD_lookups(zh, pft, TR))
  /\ \E dt \in DtSet :
       /\ \A i \in Cells : Small(Bag[i]) /\ Small(Md[i]) /\ Small(Mh[i])
       /\ \E r \in {K16MOD_Bag(m_params, Bag, Md, Mh, zh, pft, TR, dt)} :
            /\ Bag' = r.Bag /\ Md' = r.Md /\ Mh' = r.Mh
            /\ peer' = [peer EXCEPT
                 !.Md = Seen(obj.peer.Md, obj.self.Md, r.Md, @),
                 !.Mh = Seen(obj.peer.Mh, obj.self.Mh, r.Mh, @)]
       /\ call' = [on |-> "self", op |-> "aboveground_biomass", dt |-> dt, month |-> 0, dofy |-> 0, Tair |-> Zero]
  /\ pre' = Snapshot
  /\ ncalls' = ncalls + 1
  /\ UNCHANGED <<model, m_params, driver, Bbg, DepOM, DecayOM, obj, fault, f64>>

\* K16MOD.belowground_biomass(inputs)
K16MOD_belowground_biomass ==
  /\ model = "K16MOD"
  /\ ncalls < MaxCalls
  /\ InTable({m_params.phi}, pft, K16MOD_marsh(zh, pft, TR))
  /\ Bbg' = K16MOD_Bbg(m_params, Bbg, Bag, Md, pft, zh, TR)
  /\ call' = [on |-> "self", op |-> "belowground_biomass", dt |-> Zero, month |-> 0, dofy |-> 0, Tair |-> Zero]
  /\ pre' = Snapshot
  /\ ncalls' = ncalls + 1
  /\ UNCHANGED <<model, m_params, driver, Bag, DepOM, DecayOM, Md, Mh, peer, obj, fault, f64>>

\* The same two operations called on the second instance, with the caller's
\* buffers.
K16MOD_peer_aboveground_biomass ==
  /\ model = "K16MOD"
  /\ ncalls < MaxCalls
  /\ InTable({peer.m_params.Bmax}, pft, K16MOD_lookups(zh, pft, TR))
  /\ \E dt \in DtSet :
       /\ \A i \in Cells : Small(Bag[i])
       /\ \E r \in {K16MOD_Bag(peer.m_params, Bag, peer.Md, peer.Mh, zh, pft,
                                TR, dt)} :
            /\ Bag' = r.Bag
            /\ peer' = [peer EXCEPT !.Md = r.Md, !.Mh = r.Mh]
            /\ Md' = Seen(obj.self.Md, obj.peer.Md, r.Md, Md)
            /\ Mh' = Seen(obj.self.Mh, obj.peer.Mh, r.Mh, Mh)
       /\ call' = [on |-> "peer", op |-> "aboveground_biomass", dt |-> dt,
                   month |-> 0, dofy |-> 0, Tair |-> Zero]
  /\ pre' = Snapshot
  /\ ncalls' = ncalls + 1
  /\ UNCHANGED <<model, m_params, driver, Bbg, DepOM, DecayOM, obj, fault, f64>>

K16MOD_peer_belowground_biomass ==
  /\ model = "K16MOD"
  /\ ncalls < MaxCalls
  /\ InTable({peer.m_params.phi}, pft, K16MOD_marsh(zh, pft, TR))
  /\ Bbg' = K16MOD_Bbg(peer.m_params, Bbg, Bag, peer.Md, pft, zh, TR)
  /\ call' = [on |-> "peer", op |-> "belowground_biomass", dt |-> Zero,
              month |-> 0, dofy |-> 0, Tair |-> Zero]
  /\ pre' = Snapshot
  /\ ncalls' = ncalls + 1
  /\ UNCHANGED <<model, m_params, driver, Bag, DepOM, DecayOM, Md, Mh, peer,
                 obj, fault, f64>>

Next ==
  \/ NULLMOD_organic_deposition
  \/ NULLMOD_aboveground_biomass
  \/ VDK05MOD_organic_deposition
  \/ VDK05MOD_aboveground_biomass
  \/ M12MOD_organic_deposition
  \/ M12MOD_aboveground_biomass
  \/ DA07MOD_organic_deposition
  \/ DA07MOD_aboveground_biomass
  \/ KM12MOD_organic_deposition
  \/ KM12MOD_aboveground_biomass
  \/ KM12MOD_belowground_biomass
  \/ KM12MOD_soilcarbon_decay
  \/ K16MOD_organic_deposition
  \/ K16MOD_aboveground_biomass
  \/ K16MOD_belowground_biomass
  \/ K16MOD_peer_aboveground_biomass
  \/ K16MOD_peer_belowground_biomass

Spec == Init /\ [][Next]_vars

\* ------------------------------------------------- one year and the next

\* day of year and air temperature: an autumn day at the reference
\* temperature and a cold summer day, and the same days one year on
SeasonSet64 ==
  {<<291, Q(293, 1)>>, <<656, Q(293, 1)>>, <<200, Q(263, 1)>>,
   <<565, Q(263, 1)>>}

\* May, the same month one year on, and July
MonthSet64 == {5, 7, 17}

KM12MOD_aboveground_biomass_f64 ==
  /\ model = "KM12MOD"
  /\ ncalls < MaxCalls
  /\ \E sn \in SeasonSet64 :
       /\ Bag' = KM12MOD_Bag(m_params, sn[2], zh, pft, Bag, MHHW, sn[1])
       /\ f64' = [f64 EXCEPT
            !.Bag = KM12MOD_Bag_f64(f64.params, m_params.jdps, ToDbl(sn[2]),
                                    f64.zh, pft, f64.Bag, f64.MHHW,
                                    KM12MOD_indice(zh, MHHW), sn[1]),
            !.at = sn, !.Bag0 = f64.Bag, !.at0 = f64.at]
       /\ call' = [on |-> "self", op |-> "aboveground_biomass", dt |-> Zero,
                   month |-> 0, dofy |-> sn[1], Tair |-> sn[2]]
  /\ pre' = Snapshot
  /\ ncalls' = ncalls + 1
  /\ UNCHANGED <<model, m_params, driver, Bbg, DepOM, DecayOM, Md, Mh, peer,
                 obj, fault>>

DA07MOD_aboveground_biomass_f64 ==
  /\ model = "DA07MOD"
  /\ ncalls < MaxCalls
  /\ \E month \in MonthSet64 :
       /\ Bag' = DA07MOD_Bag(m_params, Bag, zh, pft, TR, month)
       /\ f64' = [f64 EXCEPT
            !.Bag = DA07MOD_Bag_f64(f64.params, m_params.mps, f64.Bag, f64.zh,
                                    pft, FMul(Half_f64, f64.TR),
                                    DA07MOD_indice(zh, TR), month),
            !.at = <<month, Zero>>, !.Bag0 = f64.Bag, !.at0 = f64.at]
       /\ call' = [on |-> "self", op |-> "aboveground_biomass", dt |-> Zero,
                   month |-> month, dofy |-> 0, Tair |-> Zero]
  /\ pre' = Snapshot
  /\ ncalls' = ncalls + 1
  /\ UNCHANGED <<model, m_params, driver, Bbg, DepOM, DecayOM, Md, Mh, peer,
                 obj, fault>>

InitSeason ==
  /\ model \in {"DA07MOD", "KM12MOD"}
  /\ m_params = ParamsOf(model)
  /\ Constructed

NextSeason ==
  \/ KM12MOD_aboveground_biomass_f64
  \/ DA07MOD_aboveground_biomass_f64

SpecSeason == InitSeason /\ [][NextSeason]_vars

\* ------------------------------------------- mangroves with a stem diameter

\* the diameter (cm) the driver gives the mangroves before the first call
SeedSet == {Q(5, 1)}

\* model.Md[:] = d: Md is a public attribute of the instance, written in
\* place by the driver before its first call
K16MOD_seed_Md ==
  /\ model = "K16MOD"
  /\ ncalls = 0
  /\ Md = Full(nx, Zero)
  /\ \E d \in SeedSet :
       /\ Md' = Full(nx, d)
       /\ peer' = [peer EXCEPT
            !.Md = Seen(obj.peer.Md, obj.self.Md, Full(nx, d), @)]
       /\ pre' = [pre EXCEPT !.Md = Full(nx, d), !.peer = peer']
  /\ UNCHANGED <<model, m_params, driver, Bag, Bbg, DepOM, DecayOM, Mh, obj,
                 call, ncalls, fault, f64>>

InitAllometry ==
  /\ model = "K16MOD"
  /\ m_params = AllometryParams
  /\ Constructed

NextAllometry ==
  \/ K16MOD_seed_Md
  \/ K16MOD_aboveground_biomass
  \/ K16MOD_belowground_biomass

SpecAllometry == InitAllometry /\ [][NextAllometry]_vars

\* ------------------------------------------- tables with missing pft codes

\* the same table with every per-pft array cut to NCoef coefficients
ShortParamsOf(m) ==
  [f \in DOMAIN ParamsOf(m) |->
     IF f \in Arrays(m) THEN Short(ParamsOf(m)[f]) ELSE ParamsOf(m)[f]]

InitConfig ==
  /\ model \in Models
  /\ m_params \in {ParamsOf(model), ShortParamsOf(model)}
  /\ Constructed

\* A call that raises IndexError at a lookup tab[pft[indice]]: the exception
\* leaves the method with the buffers as the statements before the lookup
\* left them.
Raise(m, op, missing, newBag, newDepOM) ==
  /\ model = m
  /\ ncalls < MaxCalls
  /\ fault = "none"
  /\ missing
  /\ fault' = "IndexError"
  /\ Bag' = newBag
  /\ DepOM' = newDepOM
  /\ call' = [on |-> "self", op |-> op, dt |-> Zero, month |-> 0, dofy |-> 0,
              Tair |-> Zero]
  /\ pre' = Snapshot
  /\ ncalls' = ncalls + 1
  /\ UNCHANGED <<model, m_params, driver, Bbg, DecayOM, Md, Mh, peer, obj,
                 f64>>

NULLMOD_aboveground_biomass_IndexError ==
  Raise("NULLMOD", "aboveground_biomass",
        ~InTable({m_params.aa, m_params.bb, m_params.cc}, pft,
                 NULLMOD_indice(zh, TR, pft)),
        Bag, DepOM)

VDK05MOD_aboveground_biomass_IndexError ==
  Raise("VDK05MOD", "aboveground_biomass",
        ~InTable({m_params.rB0, m_params.Bmax, m_params.czh, m_params.dP,
                  m_params.dB}, pft, VDK05MOD_indice(pft)),
        Bag, DepOM)

\* DepOM[:] = 0.0 comes before the lookup
M12MOD_organic_deposition_IndexError ==
  Raise("M12MOD", "organic_deposition",
        ~InTable({m_params.Kr, m_params.phi, m_params.Tr}, pft,
                 M12MOD_dep_indice(Bag)),
        Bag, ZeroFill(DepOM))

M12MOD_aboveground_biomass_IndexError ==
  Raise("M12MOD", "aboveground_biomass",
        ~InTable({m_params.aa, m_params.bb, m_params.cc}, pft,
                 M12MOD_indice(zh, TR, pft)),
        Bag, DepOM)

DA07MOD_organic_deposition_IndexError ==
  Raise("DA07MOD", "organic_deposition",
        ~InTable({m_params.Bmax}, pft, DA07MOD_dep_indice(Bag)),
        Bag, ZeroFill(DepOM))

DA07MOD_aboveground_biomass_IndexError ==
  Raise("DA07MOD", "aboveground_biomass",
        ~InTable({m_params.Bmax}, pft, DA07MOD_indice(zh, TR)),
        Bag, DepOM)

KM12MOD_organic_deposition_IndexError ==
  Raise("KM12MOD", "organic_deposition",
        ~InTable({m_params.thetaBG, m_params.Dmbm, m_params.Bmax,
                  m_params.Tref, m_params.sigmaB}, pft,
                 KM12MOD_indice(zh, MHHW)),
        Bag, ZeroFill(DepOM))

KM12MOD_aboveground_biomass_IndexError ==
  Raise("KM12MOD", "aboveground_biomass",
        ~InTable({m_params.Bmax, m_params.Tref, m_params.sigmaB}, pft,
                 KM12MOD_indice(zh, MHHW)),
        Bag, DepOM)

KM12MOD_belowground_biomass_IndexError ==
  Raise("KM12MOD", "belowground_biomass",
        ~InTable({m_params.thetaBG, m_params.Dmbm}, pft,
                 KM12MOD_indice(zh, MHHW)),
        Bag, DepOM)

\* the pft 2 branch has written Bag when the pft 3 and 4 branch looks up Bmax
K16MOD_aboveground_biomass_IndexError ==
  \E dt \in DtSet :
    /\ \A i \in Cells : Small(Bag[i])
    /\ Raise("K16MOD", "aboveground_biomass",
             ~InTable({m_params.Bmax}, pft, K16MOD_lookups(zh, pft, TR)),
             IF InTable({m_params.Bmax}, pft, K16MOD_indice2(zh, pft, TR))
               THEN K16MOD_Bag2(m_params, Bag, zh, pft, TR, dt)
               ELSE Bag,
             DepOM)

K16MOD_belowground_biomass_IndexError ==
  Raise("K16MOD", "belowground_biomass",
        ~InTable({m_params.phi}, pft, K16MOD_marsh(zh, pft, TR)),
        Bag, DepOM)

NextConfig ==
  \/ Next
  \/ NULLMOD_aboveground_biomass_IndexError
  \/ VDK05MOD_aboveground_biomass_IndexError
  \/ M12MOD_organic_deposition_IndexError
  \/ M12MOD_aboveground_biomass_IndexError
  \/ DA07MOD_organic_deposition_IndexError
  \/ DA07MOD_aboveground_biomass_IndexError
  \/ KM12MOD_organic_deposition_IndexError
  \/ KM12MOD_aboveground_biomass_IndexError
  \/ KM12MOD_belowground_biomass_IndexError
  \/ K16MOD_aboveground_biomass_IndexError
  \/ K16MOD_belowground_biomass_IndexError

SpecConfig == InitConfig /\ [][NextConfig]_vars

\* ------------------------------------------------------------ the properties

\* Each property reads the last call (call), the buffers as they were when
\* it started (pre) and the buffers as they are now.

\* zh[i] >= 0 and zh[i] <= hi
InElev(i, hi) == RGeq(zh[i], Zero) /\ RLeq(zh[i], hi)

\* lo <= pft[i] <= hi
InPft(i, lo, hi) == pft[i] >= lo /\ pft[i] <= hi

MHT == RMul(Half, TR)

\* cell i passes the validity predicate of aboveground_biomass of the variant
AgValid(i) ==
  CASE model = "NULLMOD" -> InElev(i, MHT) /\ InPft(i, 2, 5)
    [] model = "VDK05MOD" -> InPft(i, 2, 5)
    [] model = "M12MOD" -> InElev(i, MHT) /\ InPft(i, 2, 5)
    [] model = "DA07MOD" -> InElev(i, MHT)
    [] model = "KM12MOD" -> InElev(i, MHHW)
    [] model = "K16MOD" -> InElev(i, MHT) /\ InPft(i, 2, 5)

\* cell i passes the validity predicate of belowground_biomass of the variant
BgValid(i) ==
  CASE model = "KM12MOD" -> InElev(i, MHHW)
    [] model = "K16MOD" -> InElev(i, MHT) /\ InPft(i, 2, 5)

\* C1: after aboveground_biomass (resp. belowground_biomass) of any variant,
\* every cell that fails the validity predicate of that operation holds the
\* Bag (resp. Bbg) it held when the call started.
C1_FrameBiomass ==
  /\ call.op = "aboveground_biomass" =>
       \A i \in Cells : ~AgValid(i) => Bag[i] = pre.Bag[i]
  /\ call.op = "belowground_biomass" =>
       \A i \in Cells : ~BgValid(i) => Bbg[i] = pre.Bbg[i]

\* C1 happens: a second call, K16MOD.aboveground_biomass, rewrote a valid
\* cell and kept the Bag of a cell outside the gates
C1_Witness ==
  /\ model = "K16MOD" /\ call.op = "aboveground_biomass" /\ ncalls = 2
  /\ \E i, j \in Cells :
       /\ ~AgValid(i) /\ Bag[i] = pre.Bag[i]
       /\ AgValid(j) /\ Bag[j] # pre.Bag[j]

\* organic_deposition of the variant has a validity predicate
DepGated == model \in {"M12MOD", "DA07MOD", "KM12MOD"}

\* cell i passes the validity predicate of organic_deposition of the variant
DepValid(i) ==
  CASE model = "M12MOD" -> RGt(Bag[i], Zero)
    [] model = "DA07MOD" -> RGt(Bag[i], TOL)
    [] model = "KM12MOD" -> InElev(i, MHHW)

\* C2 as stated: after organic_deposition of M12MOD, DA07MOD or KM12MOD a
\* cell that fails the validity predicate keeps the DepOM it had before the
\* call.
C2_KeepsDepOM ==
  (DepGated /\ call.op = "organic_deposition") =>
    \A i \in Cells : ~DepValid(i) => DepOM[i] = pre.DepOM[i]

\* C2 amended: after organic_deposition of M12MOD, DA07MOD or KM12MOD every
\* cell that fails the validity predicate holds DepOM = 0, whatever it held
\* before the call.
C2_ZeroedDepOM ==
  (DepGated /\ call.op = "organic_deposition") =>
    \A i \in Cells : ~DepValid(i) => DepOM[i] = Zero

\* C2 happens: M12MOD.organic_deposition met a nonzero DepOM at a cell with
\* Bag <= 0 and left it at zero, next to a cell it gave a positive flux
C2_Witness ==
  /\ model = "M12MOD" /\ call.op = "organic_deposition"
  /\ \E i, j \in Cells :
       /\ ~DepValid(i) /\ pre.DepOM[i] # Zero /\ DepOM[i] = Zero
       /\ DepValid(j) /\ RGt(DepOM[j], Zero)

\* x >= 0 as a float comparison (false for nan)
NonNeg(x) == RGeq(x, Zero)

\* C3 as stated: from non-negative buffers, after any sequence of calls of any
\* variant every value of Bag, Bbg and DepOM, and of K16MOD's Md and Mh, is
\* >= 0.
C3_NonNegative ==
  \A i \in Cells :
    /\ NonNeg(Bag[i]) /\ NonNeg(Bbg[i]) /\ NonNeg(DepOM[i])
    /\ model = "K16MOD" => (NonNeg(Md[i]) /\ NonNeg(Mh[i]))

\* C4: after organic_deposition of NULLMOD or of VDK05MOD, DepOM is zero at
\* every index, whatever it held before and whatever call preceded.
C4_ZeroDeposition ==
  (model \in {"NULLMOD", "VDK05MOD"} /\ call.op = "organic_deposition") =>
    \A i \in Cells : DepOM[i] = Zero

\* C4 happens: VDK05MOD.organic_deposition, called after another call, met
\* a nonzero DepOM and returned all zeros
C4_Witness ==
  /\ model = "VDK05MOD" /\ call.op = "organic_deposition" /\ ncalls = 2
  /\ \A i \in Cells : pre.DepOM[i] # Zero /\ DepOM[i] = Zero

\* x and y are the same float
REq(x, y) == x = y \/ (IsFinite(x) /\ IsFinite(y) /\ RSub(x, y) = Zero)

\* a and b hold the same float at every index
VEq(a, b) == Len(a) = Len(b) /\ \A i \in 1..Len(a) : REq(a[i], b[i])

\* at every selected cell whose net rate A is negative and whose Bag B0 was
\* finite and >= 0, the new Bag B1 is within [0, B0]
Contracts(B0, B1, A, indice) ==
  LET w == Where(indice, 1)
  IN \A j \in 1..Len(w) :
       (RLt(A[j], Zero) /\ IsFinite(B0[w[j]]) /\ NonNeg(B0[w[j]])) =>
         (NonNeg(B1[w[j]]) /\ RLeq(B1[w[j]], B0[w[j]]))

\* at some selected cell the net rate A is negative, Bag was positive and the
\* new Bag is smaller and still >= 0
Shrinks(B0, B1, A, indice) ==
  LET w == Where(indice, 1)
  IN \E j \in 1..Len(w) :
       /\ RLt(A[j], Zero) /\ RGt(B0[w[j]], Zero)
       /\ NonNeg(B1[w[j]]) /\ RLt(B1[w[j]], B0[w[j]])

\* the net rate of the K16MOD branch with cells indice and rates rz, mz,
\* at the Bag the call started with
K16Rate(indice, rz, mz) ==
  K16MOD_A(Take(pre.Bag, indice), Gather(m_params.Bmax, Take(pft, indice)), rz, mz)

\* C5: one aboveground_biomass call of VDK05MOD, or of a marsh branch of
\* K16MOD (pft 2; pft 3 and 4), with net rate A < 0, a finite Bag >= 0 and
\* dt > 0 of any size leaves 0 <= Bag_new <= Bag.
C5_Stability ==
  (call.op = "aboveground_biomass" /\ RGt(call.dt, Zero)) =>
    /\ model = "VDK05MOD" =>
         Contracts(pre.Bag, Bag, VDK05MOD_A(m_params, zh, S, pre.Bag, pft),
                   VDK05MOD_indice(pft))
    /\ model = "K16MOD" =>
         /\ Contracts(pre.Bag, Bag,
                      K16Rate(K16MOD_indice2(zh, pft, TR),
                              K16MOD_rz2(Take(zh, K16MOD_indice2(zh, pft, TR)), MHT),
                              K16MOD_mz2(Take(zh, K16MOD_indice2(zh, pft, TR)), MHT)),
                      K16MOD_indice2(zh, pft, TR))
         /\ Contracts(pre.Bag, Bag,
                      K16Rate(K16MOD_indice34(zh, pft, TR),
                              K16MOD_rz34(Take(zh, K16MOD_indice34(zh, pft, TR)), MHT),
                              K16MOD_mz34(Take(zh, K16MOD_indice34(zh, pft, TR)), MHT)),
                      K16MOD_indice34(zh, pft, TR))

\* C5 happens: VDK05MOD.aboveground_biomass with a time step of ten years
\* shrank the positive Bag of a cell whose net rate was negative
C5_Witness ==
  /\ model = "VDK05MOD" /\ call.op = "aboveground_biomass"
  /\ call.dt = <<10, 1, 1>>
  /\ Shrinks(pre.Bag, Bag, VDK05MOD_A(m_params, zh, S, pre.Bag, pft),
             VDK05MOD_indice(pft))

\* the inundation index I of cell i
InundationIndex(i) == K16MOD_I(<<zh[i]>>, MHT)[1]

\* C6 as stated: every K16MOD.aboveground_biomass call with Gmgv > 0 and
\* dt > 0 leaves Md strictly greater than before at every mangrove cell
\* (pft = 5) inside the elevation gate whose inundation index I is positive,
\* starting from the state the constructor produces.
C6_MdIncreases ==
  (model = "K16MOD" /\ call.op = "aboveground_biomass"
     /\ RGt(m_params.Gmgv, Zero) /\ RGt(call.dt, Zero)) =>
    \A i \in Cells :
      (pft[i] = 5 /\ InElev(i, MHT) /\ RGt(InundationIndex(i), Zero)) =>
        RGt(Md[i], pre.Md[i])

\* A of the claim at cell i, from the buffers the call started with:
\* r0*(1 - Bag/Bmax)*(max(zh,0)/(max(zh,0) + czh)) - dP - dB*S
NetRate(i) ==
  LET p == pft[i]
      z0 == RMax(zh[i], Zero)
  IN RSub(RSub(RMul(RMul(m_params.rB0[p],
                         RSub(One, RDiv(pre.Bag[i], m_params.Bmax[p]))),
                    RDiv(z0, RAdd(z0, m_params.czh[p]))),
               m_params.dP[p]),
          RMul(m_params.dB[p], S[i]))

\* the trapezoidal update of the claim with h = 0.5*A*dt_yr:
\* max(0, B*(1 + h)/(1 - h))
Trapezoidal(B, h) == RMax(Zero, RDiv(RMul(B, RAdd(One, h)), RSub(One, h)))

\* C7 as stated: VDK05MOD.aboveground_biomass writes, at every cell with pft
\* in [2,5], Bag_new = max(0, Bag*(1 + 0.5*A*dt_yr)/(1 - 0.5*A*dt_yr)) with
\* dt_yr = dt/3.1536e7.
C7_TrapezoidalForm ==
  (model = "VDK05MOD" /\ call.op = "aboveground_biomass") =>
    \A i \in Cells :
      InPft(i, 2, 5) =>
        REq(Bag[i],
            Trapezoidal(pre.Bag[i],
                        RMul(Half, RMul(NetRate(i), RDiv(call.dt, Yr)))))

\* a*D + b*D^2 + c clamped at zero
Quadratic(a, b, c, D) ==
  RMax(Zero, RAdd(RAdd(RMul(a, D), RMul(b, RMul(D, D))), c))

\* C8: NULLMOD.aboveground_biomass sets, at every cell with
\* 0 <= zh <= 0.5*TR and 2 <= pft <= 5,
\* Bag = max(0, a[pft]*DMHT + b[pft]*DMHT^2 + c[pft]) with DMHT = 0.5*TR - zh;
\* pft = 2, zh = 0.3, TR = 1, a = 0.5, b = -0.1, c = 0.05 gives Bag = 0.146.
C8_NullBiomass ==
  (model = "NULLMOD" /\ call.op = "aboveground_biomass") =>
    \A i \in Cells :
      /\ (InElev(i, MHT) /\ InPft(i, 2, 5)) =>
           REq(Bag[i], Quadratic(m_params.aa[pft[i]], m_params.bb[pft[i]],
                                 m_params.cc[pft[i]], RSub(MHT, zh[i])))
      /\ (pft[i] = 2 /\ zh[i] = Q(3, 10) /\ TR = One
            /\ m_params.aa[2] = Q(1, 2) /\ m_params.bb[2] = Q(-1, 10)
            /\ m_params.cc[2] = Q(1, 20)) =>
           Bag[i] = Q(146, 1000)

\* C8 happens: NULLMOD.aboveground_biomass replaced the Bag of a cell with
\* pft = 2, zh = 0.3 under TR = 1 by 0.146
C8_Witness ==
  /\ model = "NULLMOD" /\ call.op = "aboveground_biomass" /\ TR = One
  /\ \E i \in Cells :
       /\ pft[i] = 2 /\ zh[i] = Q(3, 10)
       /\ pre.Bag[i] # Q(146, 1000) /\ Bag[i] = Q(146, 1000)

\* C9: M12MOD.organic_deposition returns
\* DepOM = Kr[pft]*(phi[pft]*Bag)/(Tr[pft]*3.1536e7) at every cell with
\* Bag > 0 and 0 at every cell with Bag <= 0; Bag = 0.4, Kr = 0.5, phi = 0.3,
\* Tr = 2 gives 0.06/6.3072e7.
C9_M12Deposition ==
  (model = "M12MOD" /\ call.op = "organic_deposition") =>
    \A i \in Cells :
      /\ RGt(Bag[i], Zero) =>
           REq(DepOM[i],
               RDiv(RMul(m_params.Kr[pft[i]], RMul(m_params.phi[pft[i]], Bag[i])),
                    RMul(m_params.Tr[pft[i]], Yr)))
      /\ RLeq(Bag[i], Zero) => DepOM[i] = Zero
      /\ (Bag[i] = Q(2, 5) /\ m_params.Kr[pft[i]] = Q(1, 2)
            /\ m_params.phi[pft[i]] = Q(3, 10) /\ m_params.Tr[pft[i]] = Q(2, 1)) =>
           REq(DepOM[i], RDiv(Q(6, 100), RMul(Q(2, 1), Yr)))

\* C9 happens: M12MOD.organic_deposition gave 0.06/6.3072e7 to a cell with
\* Bag = 0.4 and pft = 2, and zero to a cell with Bag <= 0
C9_Witness ==
  /\ model = "M12MOD" /\ call.op = "organic_deposition"
  /\ \E i, j \in Cells :
       /\ Bag[i] = Q(2, 5) /\ pft[i] = 2
       /\ REq(DepOM[i], RDiv(Q(6, 100), RMul(Q(2, 1), Yr)))
       /\ RLeq(Bag[j], Zero) /\ pre.DepOM[j] # Zero /\ DepOM[j] = Zero

\* C10: with the same aa, bb, cc tables and the same zh, TR, pft and Bag,
\* M12MOD.aboveground_biomass and NULLMOD.aboveground_biomass select the
\* same cells and produce the same Bag at every index.
C10_Equivalent ==
  /\ M12MOD_indice(zh, TR, pft) = NULLMOD_indice(zh, TR, pft)
  /\ (model = "M12MOD" /\ call.op = "aboveground_biomass") =>
       VEq(Bag, NULLMOD_Bag(m_params, zh, TR, pft, pre.Bag))
  /\ (model = "NULLMOD" /\ call.op = "aboveground_biomass") =>
       VEq(Bag, M12MOD_Bag(m_params, zh, TR, pft, pre.Bag))

\* C10 happens: M12MOD.aboveground_biomass rewrote a cell on the lower gate
\* boundary (zh = 0), kept a cell outside the gates, and the Bag it returned
\* is the one NULLMOD.aboveground_biomass returns
C10_Witness ==
  /\ model = "M12MOD" /\ call.op = "aboveground_biomass"
  /\ VEq(Bag, NULLMOD_Bag(m_params, zh, TR, pft, pre.Bag))
  /\ \E i, j \in Cells :
       /\ zh[i] = Zero /\ InPft(i, 2, 5) /\ Bag[i] # pre.Bag[i]
       /\ ~AgValid(j) /\ Bag[j] = pre.Bag[j]

\* C11: two K16MOD instances share no state: an aboveground_biomass or
\* belowground_biomass call on one of them leaves the Md, the Mh and the
\* m_params of the other as they were before the call.
C11_NoSharedState ==
  (model = "K16MOD"
     /\ call.op \in {"aboveground_biomass", "belowground_biomass"}) =>
    /\ call.on = "self" => peer = pre.peer
    /\ call.on = "peer" =>
         Md = pre.Md /\ Mh = pre.Mh /\ m_params = pre.m_params

\* A call on the first instance moved its Mh at a mangrove cell (0 to 137)
\* and the second instance still holds the zeros of its constructor.
C11_Witness ==
  /\ model = "K16MOD"
  /\ call.on = "self"
  /\ call.op = "aboveground_biomass"
  /\ Mh # pre.Mh
  /\ peer = pre.peer
  /\ peer.Mh = Full(nx, Zero)
  /\ obj.self.Mh # obj.peer.Mh

\* C12: a parameter table that lacks a coefficient for some pft code of the
\* enumeration is reported when the variant is constructed, and no later
\* call ends in an index fault.
C12_ReportedAtConstruction ==
  /\ (\E f \in Arrays(model) : DOMAIN m_params[f] # PftCodes) =>
       fault = "ConfigurationError"
  /\ fault # "IndexError"

\* a call on an instance built from a short table has raised IndexError
C12_Deferred ==
  /\ fault = "IndexError"
  /\ ncalls > 0
  /\ m_params = ShortParamsOf(model)

\* the length of the annual cycle in the time index of the variant
Period == IF model = "KM12MOD" THEN 365 ELSE 12

\* the last two calls were aboveground_biomass at the same point of the
\* annual cycle, one year apart, with the same temperature
YearApart ==
  /\ ncalls >= 2
  /\ f64.at[1] = f64.at0[1] + Period
  /\ f64.at[2] = f64.at0[2]

\* |a| <= |b| for binary64 values
FLeqAbs(a, b) ==
  \/ a[1] = 0
  \/ /\ b[1] # 0
     /\ \/ a[3] < b[3]
        \/ a[3] = b[3] /\ BCmp(a[2], b[2]) <= 0

FScale(a, n) == <<a[1], a[2], a[3] + n>>

\* equal to within a relative 2^-45
Near(a, b) == FLeqAbs(FScale(FSub(a, b), 45), b)

Advanced(md, mh, i, dt) ==
  RAdd(md,
       RDiv(RMul(RMul(RDiv(RDiv(RMul(RMul(dt, InundationIndex(i)),
                                     m_params.Gmgv),
                                m_params.Mdmax), m_params.Mhmax), md),
                 RSub(One, RMul(md, mh))),
            RSub(RAdd(Q(274, 1), RMul(RMul(Q(3, 1), m_params.b2mgv), md)),
                 RMul(RMul(Q(4, 1), m_params.b3mgv), RMul(md, md)))))

\* 137 + b2mgv*md + b3mgv*md^2
Allometric(md) ==
  RAdd(RAdd(Q(137, 1), RMul(m_params.b2mgv, md)),
       RMul(m_params.b3mgv, RMul(md, md)))

\* (0.5/md) * 0.308 * md^2.11
StandBiomass(md) ==
  RMul(RMul(RDiv(Half, md), Q(308, 1000)), RPow(md, Q(211, 100)))

\* cell i is a mangrove cell inside the elevation gate
GatedMangrove(i) == pft[i] = 5 /\ InElev(i, MHT)

\* C14: after a K16MOD.aboveground_biomass call, at every gated mangrove
\* cell Md is the diameter the call started with advanced once with the Mh
\* the previous call left, Mh = 137 + b2mgv*Md + b3mgv*Md^2 for the new Md,
\* and Bag is computed from the new Md; at the other cells Md and Mh are
\* kept; belowground_biomass changes neither Md nor Mh.
C14_UpdateOrder ==
  (model = "K16MOD" /\ call.on = "self") =>
    /\ call.op = "aboveground_biomass" =>
         \A i \in Cells :
           IF GatedMangrove(i)
             THEN /\ REq(Md[i], Advanced(pre.Md[i], pre.Mh[i], i, call.dt))
                  /\ REq(Mh[i], Allometric(Md[i]))
                  /\ REq(Bag[i], StandBiomass(Md[i]))
             ELSE Md[i] = pre.Md[i] /\ Mh[i] = pre.Mh[i]
    /\ call.op = "belowground_biomass" => Md = pre.Md /\ Mh = pre.Mh

\* two aboveground_biomass calls were made on seeded mangroves: the first
\* moved the diameter away from the seed and left a height, and the second
\* moved it again, by a step that depends on that height
C14_Witness ==
  /\ model = "K16MOD"
  /\ ncalls = 2
  /\ call.op = "aboveground_biomass"
  /\ \E i \in Cells :
       /\ GatedMangrove(i)
       /\ pre.Md[i] \notin SeedSet \cup {Zero}
       /\ pre.Mh[i] = Allometric(pre.Md[i])
       /\ Md[i] # pre.Md[i]
       /\ Md[i] # Advanced(pre.Md[i], Zero, i, call.dt)
       /\ Mh[i] # pre.Mh[i]

\* C15: the constructor leaves Md = 0 at every cell, and a K16MOD
\* aboveground_biomass or belowground_biomass call on a mangrove cell inside
\* the elevation gate whose Md is 0 divides 0.5 by it: no fault is signalled
\* and the cell's Bag (or Bbg) is the nan of inf * 0.
C15_ZeroDiameterDivides ==
  (model = "K16MOD" /\ call.on = "self") =>
    /\ ncalls = 0 => Md = Full(nx, Zero)
    /\ \A i \in Cells :
         (GatedMangrove(i) /\ Md[i] = Zero) =>
           /\ call.op = "aboveground_biomass" =>
                fault = "none" /\ IsNaN(Bag[i])
           /\ call.op = "belowground_biomass" =>
                fault = "none" /\ IsNaN(Bbg[i])

\* aboveground_biomass was called on a freshly constructed K16MOD whose
\* transect has a gated mangrove cell with a finite Bag: the call returned
\* normally with nan in that cell
C15_Witness ==
  /\ model = "K16MOD"
  /\ call.on = "self"
  /\ call.op = "aboveground_biomass"
  /\ ncalls = 1
  /\ fault = "none"
  /\ \E i \in Cells :
       /\ GatedMangrove(i)
       /\ pre.Md[i] = Zero
       /\ IsFinite(pre.Bag[i])
       /\ IsNaN(Bag[i])

\* 1 + (Tsoi - TrefOM)*sigmaOM of the last call
DecayFactor ==
  RAdd(One, RMul(RSub(call.Tair, m_params.TrefOM), m_params.sigmaOM))

\* factor * k0 / 3.1536e7 * C
PoolDecay(k0, C) == RMul(RDiv(RMul(DecayFactor, k0), Yr), C)

\* C16: after KM12MOD.soilcarbon_decay, at every cell DecayOM[labile] =
\* (1 + (Tsoi - TrefOM)*sigmaOM)*kl0/3.1536e7*Cl and DecayOM[refractory] =
\* (1 + (Tsoi - TrefOM)*sigmaOM)*kr0/3.1536e7*Cr, each from its own pool only
\* and with no floor: a negative factor and a positive pool give a negative
\* decay.
C16_DecayFormula ==
  (model = "KM12MOD" /\ call.op = "soilcarbon_decay") =>
    \A i \in Cells :
      /\ REq(DecayOM[i][1], PoolDecay(m_params.kl0, OM[i][1]))
      /\ REq(DecayOM[i][2], PoolDecay(m_params.kr0, OM[i][2]))
      /\ (RLt(DecayFactor, Zero) /\ RGt(OM[i][1], Zero)) =>
           RLt(DecayOM[i][1], Zero)
      /\ (RLt(DecayFactor, Zero) /\ RGt(OM[i][2], Zero)) =>
           RLt(DecayOM[i][2], Zero)

\* soilcarbon_decay was called 30 K below the reference temperature on
\* positive pools of different size: both decays are negative and differ
C16_Witness ==
  /\ model = "KM12MOD"
  /\ call.op = "soilcarbon_decay"
  /\ RLt(DecayFactor, Zero)
  /\ \E i \in Cells :
       /\ RGt(OM[i][1], Zero) /\ RGt(OM[i][2], Zero) /\ OM[i][1] # OM[i][2]
       /\ RLt(DecayOM[i][1], Zero) /\ RLt(DecayOM[i][2], Zero)
       /\ DecayOM[i][1] # DecayOM[i][2]

\* C17, as stated: in every variant a cell whose pft is outside [2, 5] is
\* never written by aboveground_biomass, by belowground_biomass or by the
\* deposition equation of organic_deposition: its Bag, its Bbg are kept, and
\* its DepOM is kept or is the zero of the initial fill.
C17_UnvegetatedUntouched ==
  (call.on = "self" /\ fault = "none") =>
    \A i \in Cells :
      ~InPft(i, 2, 5) =>
        /\ call.op = "aboveground_biomass" => Bag[i] = pre.Bag[i]
        /\ call.op = "belowground_biomass" => Bbg[i] = pre.Bbg[i]
        /\ call.op = "organic_deposition" => DepOM[i] \in {pre.DepOM[i], Zero}

\* C18: every call leaves zh, pft, TR, MHHW, S, the OM pools and m_params
\* as they were; aboveground_biomass changes no buffer but Bag (and Md, Mh
\* in K16MOD), organic_deposition none but DepOM, belowground_biomass none
\* but Bbg, soilcarbon_decay none but DecayOM.
C18_WritesOwnOutput ==
  [][/\ UNCHANGED <<zh, pft, TR, MHHW, S, OM, m_params>>
     /\ ncalls' # ncalls =>
          /\ call'.op = "aboveground_biomass" =>
               /\ UNCHANGED <<Bbg, DepOM, DecayOM>>
               /\ model # "K16MOD" => UNCHANGED <<Md, Mh>>
          /\ call'.op = "organic_deposition" =>
               UNCHANGED <<Bag, Bbg, DecayOM, Md, Mh>>
          /\ call'.op = "belowground_biomass" =>
               UNCHANGED <<Bag, DepOM, DecayOM, Md, Mh>>
          /\ call'.op = "soilcarbon_decay" =>
               UNCHANGED <<Bag, Bbg, DepOM, Md, Mh>>
          /\ call'.op \in {"aboveground_biomass", "organic_deposition",
                           "belowground_biomass", "soilcarbon_decay"}]_vars

\* two calls were made, the last one belowground_biomass: it changed Bbg and
\* left Bag, DepOM and DecayOM as the call before had left them
C18_Witness ==
  /\ ncalls = 2
  /\ call.on = "self"
  /\ call.op = "belowground_biomass"
  /\ Bbg # pre.Bbg
  /\ Bag = pre.Bag /\ DepOM = pre.DepOM /\ DecayOM = pre.DecayOM
  /\ m_params = pre.m_params

\* the net rate rz*(1 - Bag/Bmax) - mz of a K16MOD marsh cell i, from the Bag
\* the call started with: per second for pft 2, as written for pft 3 and 4
MarshRate(i) ==
  IF pft[i] = 2
    THEN RSub(RMul(RDiv(RSub(One, RDiv(RMul(Half, zh[i]), MHT)), Yr),
                   RSub(One, RDiv(pre.Bag[i], m_params.Bmax[pft[i]]))),
              RDiv(RDiv(RMul(Half, zh[i]), MHT), Yr))
    ELSE RSub(RMul(RMul(Half, RAdd(One, RDiv(zh[i], MHT))),
                   RSub(One, RDiv(pre.Bag[i], m_params.Bmax[pft[i]]))),
              RMul(Half, RSub(One, RDiv(zh[i], MHT))))

\* cell i is updated by the semi-implicit quotient of the variant
SemiImplicit(i) ==
  CASE model = "VDK05MOD" -> InPft(i, 2, 5)
    [] model = "K16MOD" -> InPft(i, 2, 4) /\ InElev(i, MHT)
    [] OTHER -> FALSE

\* the denominator of the quotient at cell i: 1 - A*dt/3.1536e7 in VDK05MOD,
\* 1 - 0.5*A*dt in K16MOD
Denominator(i) ==
  IF model = "VDK05MOD"
    THEN RSub(One, RDiv(RMul(NetRate(i), call.dt), Yr))
    ELSE RSub(One, RMul(RMul(Half, MarshRate(i)), call.dt))

\* C19: after aboveground_biomass of VDK05MOD or K16MOD, a cell updated by
\* the semi-implicit quotient (VDK05MOD pft 2..5; K16MOD pft 2..4 inside the
\* elevation gate) whose Bag was 0 before the call and whose denominator is
\* not 0 has Bag 0.
C19_ZeroAbsorbing ==
  (call.on = "self" /\ call.op = "aboveground_biomass") =>
    \A i \in Cells :
      (SemiImplicit(i) /\ pre.Bag[i] = Zero /\ ~REq(Denominator(i), Zero)) =>
        Bag[i] = Zero

\* a cell that started with a positive Bag was clamped to 0 by the first
\* call, and a second call, with a non-zero denominator and a positive net
\* rate, left it at 0
C19_Witness ==
  /\ ncalls = 2
  /\ call.on = "self"
  /\ call.op = "aboveground_biomass"
  /\ \E i \in Cells :
       /\ SemiImplicit(i)
       /\ pre.Bag[i] = Zero
       /\ ~REq(Denominator(i), Zero)
       /\ RGt(IF model = "VDK05MOD" THEN NetRate(i) ELSE MarshRate(i), Zero)
       /\ Bag[i] = Zero

====
